---- MODULE Spec2Model ----
(***************************************************************************)
(* A model of the lag-rust lexer generator: the regex-to-DFA pipeline      *)
(* (src/src/regex_ast.rs, src/src/parser.rs, src/src/dfa_serializer.rs,    *)
(* src/src/lib.rs) and the specification lexer (src/src/lexer.rs).         *)
(*                                                                         *)
(* Positions (ObjRef) are 0-based as in the source; an arena is a TLA+     *)
(* sequence, so the node at position p is arena[p + 1].  Characters are    *)
(* one-character strings.                                                  *)
(***************************************************************************)
EXTENDS Integers, Sequences, FiniteSets, TLC

VARIABLES
    stmts,             \* the statements of the input text, in source order
    tree,              \* ParserOutput.tree: the AST arena
    end_nodes,         \* ParserOutput.end_nodes: '#' leaf -> token id
    token_order,       \* ParserOutput.token_order
    meta,              \* the ParseTreeMeta arena of get_meta
    follow_pos,        \* the table of get_follow_pos
    state_table,       \* get_dfa: state -> set of <<char, target>>
    queue,             \* get_dfa: the worklist
    accepting_states,  \* get_dfa: the builder's accepting set
    state_ids,         \* serialize_dfa: state -> id
    serialized,        \* serialize_dfa: the SerializedDFA value
    outputs,           \* the JSON texts of the runs made on this input
    pc,                \* position of generate_lexer_program
    lexer,             \* the Lexer value
    profile,           \* the build profile: "debug" or "release"
    status,            \* "ok"; "wrapped" once a subtraction has wrapped around;
                       \* "panicked" once a call has aborted
    last,              \* the last call that returned: what it was and gave
    prev,              \* the call that returned before it
    peeks,             \* peek_token calls made
    eoi_returned,      \* a get_token call has returned EOI
    parse_result,      \* what parse gave for the text of the lexer
    files,             \* main: the output files created so far
    driver_file_contents, \* main: what create_driver_file has written
    exit_code          \* main: the exit status of the process, once it has ended

lexer_vars == <<lexer, profile, status, last, prev, peeks, eoi_returned>>

parser_vars == <<parse_result>>

main_vars == <<files, driver_file_contents, exit_code>>

pipeline_vars == <<stmts, tree, end_nodes, token_order, meta, follow_pos,
                   state_table, queue, accepting_states, state_ids, serialized,
                   outputs, pc>>

-----------------------------------------------------------------------------
(* Bounds of the model.                                                    *)

\* regex nodes (leaves and operators) over all statements of one input
MaxNodes == 4
\* token / ignore statements of one input
MaxStmts == 2
\* length of the strings the DFA is run on
MaxStr == 3
\* chars of the text given to the lexer
MaxInput == 3
\* peek_token calls made on one lexer
MaxPeeks == 2
\* runs of the generator on one input text
MaxRuns == 2
\* regex nodes of a single-statement input that is run more than once
MaxRunNodes == 2

\* characters a regex of the bounded inputs is written with
RegexChars == {"a", "b", "#"}
\* names a token statement of the bounded inputs declares
TokenNames == {"A", "B"}

-----------------------------------------------------------------------------
(* Arena (src/src/arena.rs).                                               *)

size(arena) == Len(arena)

get(arena, obj_ref) == arena[obj_ref + 1]

\* add returns the previous size as the new position; the arena after it is
\* arena_add
arena_add(arena, obj) == Append(arena, obj)

-----------------------------------------------------------------------------
(* ParseTreeNode (src/src/regex_ast.rs): six kinds.  Unused fields of a    *)
(* record are 0 / "".                                                      *)

Character(c) == [kind |-> "Character", ch |-> c, child |-> 0, left |-> 0, right |-> 0]

Unary(kind, child) == [kind |-> kind, ch |-> "", child |-> child, left |-> 0, right |-> 0]

Binary(kind, left, right) == [kind |-> kind, ch |-> "", child |-> 0, left |-> left, right |-> right]

UnaryKinds == {"Star", "Plus", "Question"}

BinaryKinds == {"Concat", "Union"}

\* the nodes of arena r, appended to an arena that already holds d nodes
Shift(r, d) ==
    [i \in 1..Len(r) |->
        IF r[i].kind \in UnaryKinds THEN Unary(r[i].kind, r[i].child + d)
        ELSE IF r[i].kind \in BinaryKinds
             THEN Binary(r[i].kind, r[i].left + d, r[i].right + d)
             ELSE r[i]]

-----------------------------------------------------------------------------
(* The regexes of the bounded inputs.  A regex is given by the nodes the   *)
(* parser adds for it, in the order it adds them (match_regex, match_rterm *)
(* and match_rclosure add both operands before the operator node, and      *)
(* match_rfactor's parentheses allow every nesting), with positions        *)
(* relative to the first node of the regex.                                *)

RECURSIVE RegexArenas(_)
RegexArenas(n) ==
    IF n = 1 THEN {<<Character(c)>> : c \in RegexChars}
    ELSE {Append(a, Unary(k, n - 2)) : a \in RegexArenas(n - 1), k \in UnaryKinds}
         \cup UNION {
               {l \o Shift(r, i) \o <<Binary(k, i - 1, n - 2)>> :
                    l \in RegexArenas(i), r \in RegexArenas(n - 1 - i), k \in BinaryKinds}
               : i \in 1..(n - 2)}

TokenStmt(name, regex) == [keyword |-> "token", name |-> name, regex |-> regex]

IgnoreStmt(regex) == [keyword |-> "ignore", name |-> "", regex |-> regex]

StmtsOfSize(n) ==
    {TokenStmt(name, r) : name \in TokenNames, r \in RegexArenas(n)}
    \cup {IgnoreStmt(r) : r \in RegexArenas(n)}

\* statement lists of k statements with n regex nodes in all
RECURSIVE StmtLists(_, _)
StmtLists(k, n) ==
    IF k = 0 THEN (IF n = 0 THEN {<< >>} ELSE {})
    ELSE UNION {
           {Append(ss, s) : ss \in StmtLists(k - 1, n - m), s \in StmtsOfSize(m)}
           : m \in 1..(n - (k - 1))}

BoundedInputs ==
    UNION {StmtLists(k, n) : k \in 0..MaxStmts, n \in 0..MaxNodes}

\* token A /a/ newline token B /b/            (scenario S1 of the specification)
InputS1 == <<TokenStmt("A", <<Character("a")>>), TokenStmt("B", <<Character("b")>>)>>

\* token T /(a|b)*abb/                        (scenario S2 of the specification)
RegexS2 ==
    <<Character("a"), Character("b"), Binary("Union", 0, 1), Unary("Star", 2),
      Character("a"), Character("b"), Character("b"), Binary("Concat", 5, 6),
      Binary("Concat", 4, 7), Binary("Concat", 3, 8)>>

InputS2 == <<TokenStmt("T", RegexS2)>>

ScenarioInputs == {InputS1, InputS2}

-----------------------------------------------------------------------------
(* Parser (src/src/parser.rs): what a statement does to the tree, the      *)
(* token-order list and the accepting-node map.                            *)

NewContext == [tree |-> << >>, token_order |-> << >>, accepting_nodes |-> << >>]

\* regexStmt: the regex's nodes, then the '#' leaf recorded against token_id,
\* then Concat(regex, #).  The regex root is the last node added.
match_regex_stmt(ctx, token_id, regex) ==
    LET tree1    == ctx.tree \o Shift(regex, size(ctx.tree))
        node     == size(tree1) - 1
        end_node == size(tree1)
        tree2    == arena_add(tree1, Character("#"))
        tree3    == arena_add(tree2, Binary("Concat", node, end_node))
    IN  [ctx EXCEPT !.tree = tree3,
                    !.accepting_nodes = (end_node :> token_id) @@ ctx.accepting_nodes]

add_regex_subtree(ctx, token_id, regex) ==
    LET has_left  == size(ctx.tree) > 0
        left_node == size(ctx.tree) - 1
        ctx1      == match_regex_stmt(ctx, token_id, regex)
        node      == size(ctx1.tree) - 1
    IN  IF has_left
        THEN [ctx1 EXCEPT !.tree = arena_add(ctx1.tree, Binary("Union", left_node, node))]
        ELSE ctx1

match_token_stmt(ctx, stmt) ==
    add_regex_subtree([ctx EXCEPT !.token_order = Append(ctx.token_order, stmt.name)],
                      stmt.name, stmt.regex)

match_ignore_stmt(ctx, stmt) == add_regex_subtree(ctx, "!", stmt.regex)

match_stmt(ctx, stmt) ==
    IF stmt.keyword = "token" THEN match_token_stmt(ctx, stmt)
    ELSE match_ignore_stmt(ctx, stmt)

RECURSIVE match_stmt_list(_, _, _)
match_stmt_list(ctx, ss, i) ==
    IF i > Len(ss) THEN ctx
    ELSE match_stmt_list(match_stmt(ctx, ss[i]), ss, i + 1)

\* parse: the statements, then '!' appended to the token order and, for a
\* non-empty tree, the augmenting '#' leaf and the root Concat.
parse(ss) ==
    LET ctx  == match_stmt_list(NewContext, ss, 1)
        ord  == Append(ctx.token_order, "!")
        left == size(ctx.tree) - 1
        end_char == size(ctx.tree)
        tr   == IF size(ctx.tree) > 0
                THEN arena_add(arena_add(ctx.tree, Character("#")),
                               Binary("Concat", left, end_char))
                ELSE ctx.tree
    IN  [tree |-> tr, token_order |-> ord, end_nodes |-> ctx.accepting_nodes]

-----------------------------------------------------------------------------
(* AST metadata (src/src/regex_ast.rs, ParseTree::get_meta).               *)

EmptyMeta == [nullable |-> FALSE, first_pos |-> {}, last_pos |-> {}]

LeafMeta(node_ref) ==
    [nullable |-> FALSE, first_pos |-> {node_ref}, last_pos |-> {node_ref}]

UnionMeta(left_meta, right_meta) ==
    [nullable  |-> left_meta.nullable \/ right_meta.nullable,
     first_pos |-> left_meta.first_pos \cup right_meta.first_pos,
     last_pos  |-> left_meta.last_pos \cup right_meta.last_pos]

\* a faulty Concat rule, against which C4 is checked: first_pos is taken from
\* the left operand alone, even when the left operand is nullable
ConcatMetaLeftOnly(left_meta, right_meta) ==
    [nullable  |-> left_meta.nullable /\ right_meta.nullable,
     first_pos |-> left_meta.first_pos,
     last_pos  |-> IF right_meta.nullable
                   THEN right_meta.last_pos \cup left_meta.last_pos
                   ELSE right_meta.last_pos]

ConcatMeta(left_meta, right_meta) ==
    [nullable  |-> left_meta.nullable /\ right_meta.nullable,
     first_pos |-> IF left_meta.nullable
                   THEN left_meta.first_pos \cup right_meta.first_pos
                   ELSE left_meta.first_pos,
     last_pos  |-> IF right_meta.nullable
                   THEN right_meta.last_pos \cup left_meta.last_pos
                   ELSE right_meta.last_pos]

\* the closure rule with nullable taken over from the child: a Plus node is
\* nullable when its child is
ClosureMetaFromChild(kind, child_meta) ==
    [nullable  |-> kind \in {"Star", "Question"} \/ child_meta.nullable,
     first_pos |-> child_meta.first_pos,
     last_pos  |-> child_meta.last_pos]

ClosureMeta(kind, child_meta) ==
    [nullable  |-> kind \in {"Star", "Question"},
     first_pos |-> child_meta.first_pos,
     last_pos  |-> child_meta.last_pos]

RECURSIVE calculate_meta(_, _, _)
calculate_meta(node_ref, m, ast) ==
    LET node == get(ast, node_ref) IN
    IF node.kind = "Character"
    THEN [m EXCEPT ![node_ref + 1] = LeafMeta(node_ref)]
    ELSE IF node.kind \in BinaryKinds
    THEN LET m1 == calculate_meta(node.left, m, ast)
             m2 == calculate_meta(node.right, m1, ast)
         IN  [m2 EXCEPT ![node_ref + 1] =
                 IF node.kind = "Union"
                 THEN UnionMeta(get(m2, node.left), get(m2, node.right))
                 ELSE ConcatMeta(get(m2, node.left), get(m2, node.right))]
    ELSE LET m1 == calculate_meta(node.child, m, ast)
         IN  [m1 EXCEPT ![node_ref + 1] = ClosureMeta(node.kind, get(m1, node.child))]

get_meta(ast, root) ==
    calculate_meta(root, [i \in 1..size(ast) |-> EmptyMeta], ast)

-----------------------------------------------------------------------------
(* Followpos (src/src/regex_ast.rs, get_follow_pos).  The table is a       *)
(* function whose domain is the set of keys of the HashMap.                *)

\* for nref in keys: follow_pos.entry(nref).or_insert(empty).extend(follow_nodes)
follow_extend(fp, keys, follow_nodes) ==
    [k \in (DOMAIN fp) \cup keys |->
        (IF k \in DOMAIN fp THEN fp[k] ELSE {})
        \cup (IF k \in keys THEN follow_nodes ELSE {})]

\* the helper descends into Concat, Star, Plus and Union nodes; every other
\* kind (a leaf, and a Question node) is the `_ => {}` arm
RECURSIVE follow_helper(_, _, _, _)
follow_helper(ast, m, node_ref, fp) ==
    LET node == get(ast, node_ref) IN
    IF node.kind = "Concat"
    THEN LET fp1 == follow_extend(fp, get(m, node.left).last_pos,
                                  get(m, node.right).first_pos)
             fp2 == follow_helper(ast, m, node.left, fp1)
         IN  follow_helper(ast, m, node.right, fp2)
    ELSE IF node.kind \in {"Star", "Plus"}
    THEN LET fp1 == follow_extend(fp, get(m, node_ref).last_pos,
                                  get(m, node_ref).first_pos)
         IN  follow_helper(ast, m, node.child, fp1)
    ELSE IF node.kind = "Union"
    THEN follow_helper(ast, m, node.right, follow_helper(ast, m, node.left, fp))
    ELSE fp

\* the root must be a Concat (else the function panics); its right child is
\* the end node, entered with an empty set
root_is_concat(ast, root) == get(ast, root).kind = "Concat"

get_follow_pos(ast, m, root) ==
    LET end_node == get(ast, root).right
    IN  follow_helper(ast, m, root, (end_node :> {}))


-----------------------------------------------------------------------------
(* DFA builder (src/src/regex_ast.rs, get_dfa).  The state table maps a    *)
(* state (a set of leaf positions) to its transitions, a set of            *)
(* <<char, target>> pairs with at most one pair per char.                  *)
(* The builder groups the leaves of a state by the char of the Character   *)
(* node, and takes every leaf whose char is '#' for an end marker.         *)

\* the orders a hash container may yield the elements of S in
Orders(S) ==
    {o \in [1..Cardinality(S) -> S] : \A i, j \in 1..Cardinality(S) : o[i] = o[j] => i = j}

\* every node of a state must be a Character node (else the function panics)
all_characters(node_refs, ast) ==
    \A n \in node_refs : get(ast, n).kind = "Character"

\* group_nodes_by_char keeping one leaf of every group, the one at the lowest
\* position
group_nodes_first_only(node_refs, ast) ==
    [c \in {get(ast, n).ch : n \in node_refs} |->
        {n \in node_refs : /\ get(ast, n).ch = c
                            /\ \A o \in node_refs : get(ast, o).ch = c => n <= o}]

group_nodes_by_char(node_refs, ast) ==
    [c \in {get(ast, n).ch : n \in node_refs} |->
        {n \in node_refs : get(ast, n).ch = c}]

\* HashMap::insert on the transitions of one state
transition_insert(transitions, char, target) ==
    {t \in transitions : t[1] # char} \cup {<<char, target>>}

\* dfa_visit without `state_table.insert(target_state.clone(), HashMap::new())`:
\* a new target state is queued and made the target of the transition, and
\* gets its key only when a transition of its own is entered
dfa_visit_without_insert(b, cur_state, char, node_refs, followpos) ==
    IF b.panicked THEN b
    ELSE IF char = "#"
    THEN [b EXCEPT !.accepting_states = @ \cup {cur_state}]
    ELSE IF \E n \in node_refs : n \notin DOMAIN followpos
    THEN [b EXCEPT !.panicked = TRUE]
    ELSE LET target_state == UNION {followpos[n] : n \in node_refs}
             is_new == target_state \notin DOMAIN b.state_table
             transitions == IF cur_state \in DOMAIN b.state_table
                            THEN b.state_table[cur_state] ELSE {}
         IN  [b EXCEPT !.state_table =
                           (cur_state :> transition_insert(transitions, char, target_state))
                           @@ b.state_table,
                       !.queue = IF is_new THEN Append(b.queue, target_state)
                                 ELSE b.queue]

\* one iteration of `for (char, node_refs) in grouped_nodes`; b holds the
\* builder's locals and whether followpos.get(..).unwrap() has panicked
dfa_visit(b, cur_state, char, node_refs, followpos) ==
    IF b.panicked THEN b
    ELSE IF char = "#"
    THEN [b EXCEPT !.accepting_states = @ \cup {cur_state}]
    ELSE IF \E n \in node_refs : n \notin DOMAIN followpos
    THEN [b EXCEPT !.panicked = TRUE]
    ELSE LET target_state == UNION {followpos[n] : n \in node_refs}
             is_new == target_state \notin DOMAIN b.state_table
             table1 == IF is_new THEN (target_state :> {}) @@ b.state_table
                       ELSE b.state_table
             queue1 == IF is_new THEN Append(b.queue, target_state) ELSE b.queue
         IN  [b EXCEPT !.state_table =
                           [table1 EXCEPT ![cur_state] =
                               transition_insert(@, char, target_state)],
                       !.queue = queue1]

RECURSIVE dfa_visit_all(_, _, _, _, _, _)
dfa_visit_all(b, cur_state, groups, order, i, followpos) ==
    IF i > Len(order) THEN b
    ELSE dfa_visit_all(dfa_visit(b, cur_state, order[i], groups[order[i]], followpos),
                       cur_state, groups, order, i + 1, followpos)

\* dfa_loop_body with `queue.front()` for `queue.pop_front()`: the state
\* taken stays at the head of the queue
dfa_loop_body_without_pop(b, ast, followpos, order) ==
    LET cur_state == Head(b.queue)
        groups    == group_nodes_by_char(cur_state, ast)
    IN  IF ~all_characters(cur_state, ast) THEN [b EXCEPT !.panicked = TRUE]
        ELSE dfa_visit_all(b, cur_state, groups, order, 1, followpos)

\* one iteration of `while queue.len() > 0`, the groups visited in `order`
dfa_loop_body(b, ast, followpos, order) ==
    LET cur_state == Head(b.queue)
        b1        == [b EXCEPT !.queue = Tail(b.queue)]
        groups    == group_nodes_by_char(cur_state, ast)
    IN  IF ~all_characters(cur_state, ast) THEN [b1 EXCEPT !.panicked = TRUE]
        ELSE dfa_visit_all(b1, cur_state, groups, order, 1, followpos)

-----------------------------------------------------------------------------
(* DFA serializer (src/src/dfa_serializer.rs).  Ids are the integers whose *)
(* decimal strings the code writes.                                        *)

get_accepting_tokens(nodes, state, order) ==
    LET accepting_tokens == {nodes[n] : n \in state \cap DOMAIN nodes}
    IN  SelectSeq(order, LAMBDA token : token \in accepting_tokens)

\* state_ids: the i-th state of the table's iteration order gets id i
state_ids_of(key_order) ==
    [s \in {key_order[i] : i \in DOMAIN key_order} |->
        CHOOSE i \in DOMAIN key_order : key_order[i] = s]

\* the SerializedDFA value built from the table, for one iteration order of
\* the table's keys
serialize_dfa(table, entry_state, nodes, order, key_order) ==
    LET ids == state_ids_of(key_order)
        labels(s) == get_accepting_tokens(nodes, s, order)
        accepting_keys == {s \in DOMAIN table : Len(labels(s)) > 0}
    IN  [entry      |-> ids[entry_state],
         states     |-> [id \in {ids[s] : s \in DOMAIN table} |->
                            LET s == key_order[id]
                            IN  {<<t[1], ids[t[2]]>> : t \in table[s]}],
         accepting  |-> [id \in {ids[s] : s \in accepting_keys} |->
                            labels(key_order[id])],
         class_sets |-> << >>]

\* serde_json::to_string_pretty: the fields in declaration order, every map
\* in the order its HashMap yields its entries
to_string_pretty(ser, states_order, accepting_order, symbol_orders) ==
    [accepting  |-> [i \in DOMAIN accepting_order |->
                        <<accepting_order[i], ser.accepting[accepting_order[i]]>>],
     class_sets |-> << >>,
     entry      |-> ser.entry,
     states     |-> [i \in DOMAIN states_order |->
                        <<states_order[i], symbol_orders[states_order[i]]>>]]

\* the orders the transitions of every state may be written in
SymbolOrders(ser) ==
    LET all == UNION {Orders(ser.states[id]) : id \in DOMAIN ser.states}
    IN  {f \in [DOMAIN ser.states -> all] :
            \A id \in DOMAIN ser.states : f[id] \in Orders(ser.states[id])}

-----------------------------------------------------------------------------
(* Specification lexer (src/src/lexer.rs).  The input is a sequence of     *)
(* chars; a char is a one-character string, except for the two chars that  *)
(* a TLA+ string cannot hold, which are named.  pos is 0-based, so the     *)
(* char at pos is input[pos + 1].                                          *)
(*                                                                         *)
(* A usize is represented by an integer; in a release build, where         *)
(* arithmetic wraps, a negative integer n stands for 2^64 + n.  In a debug *)
(* build a subtraction that would go below zero aborts the call.           *)

\* U+00E9, a char whose UTF-8 encoding takes two bytes
EAcute == "U+00E9"
\* U+0008, the char evaluate_escape_characters gives for \v
Backspace == "U+0008"

\* the chars with code points 0 to 233 (U+00E9), in code point order: the
\* char with code point i is CharTable[i + 1]; a char without a TLA+ spelling
\* is written by its name
CharTable ==
    <<
      "U+0000", "U+0001", "U+0002", "U+0003", "U+0004", "U+0005", "U+0006", "U+0007",
      Backspace, "\t", "\n", "U+000B", "\f", "\r", "U+000E", "U+000F",
      "U+0010", "U+0011", "U+0012", "U+0013", "U+0014", "U+0015", "U+0016", "U+0017",
      "U+0018", "U+0019", "U+001A", "U+001B", "U+001C", "U+001D", "U+001E", "U+001F",
      " ", "!", "\"", "#", "$", "%", "&", "'",
      "(", ")", "*", "+", ",", "-", ".", "/",
      "0", "1", "2", "3", "4", "5", "6", "7",
      "8", "9", ":", ";", "<", "=", ">", "?",
      "@", "A", "B", "C", "D", "E", "F", "G",
      "H", "I", "J", "K", "L", "M", "N", "O",
      "P", "Q", "R", "S", "T", "U", "V", "W",
      "X", "Y", "Z", "[", "\\", "]", "^", "_",
      "U+0060", "a", "b", "c", "d", "e", "f", "g",
      "h", "i", "j", "k", "l", "m", "n", "o",
      "p", "q", "r", "s", "t", "u", "v", "w",
      "x", "y", "z", "{", "|", "}", "~", "U+007F",
      "U+0080", "U+0081", "U+0082", "U+0083", "U+0084", "U+0085", "U+0086", "U+0087",
      "U+0088", "U+0089", "U+008A", "U+008B", "U+008C", "U+008D", "U+008E", "U+008F",
      "U+0090", "U+0091", "U+0092", "U+0093", "U+0094", "U+0095", "U+0096", "U+0097",
      "U+0098", "U+0099", "U+009A", "U+009B", "U+009C", "U+009D", "U+009E", "U+009F",
      "U+00A0", "U+00A1", "U+00A2", "U+00A3", "U+00A4", "U+00A5", "U+00A6", "U+00A7",
      "U+00A8", "U+00A9", "U+00AA", "U+00AB", "U+00AC", "U+00AD", "U+00AE", "U+00AF",
      "U+00B0", "U+00B1", "U+00B2", "U+00B3", "U+00B4", "U+00B5", "U+00B6", "U+00B7",
      "U+00B8", "U+00B9", "U+00BA", "U+00BB", "U+00BC", "U+00BD", "U+00BE", "U+00BF",
      "U+00C0", "U+00C1", "U+00C2", "U+00C3", "U+00C4", "U+00C5", "U+00C6", "U+00C7",
      "U+00C8", "U+00C9", "U+00CA", "U+00CB", "U+00CC", "U+00CD", "U+00CE", "U+00CF",
      "U+00D0", "U+00D1", "U+00D2", "U+00D3", "U+00D4", "U+00D5", "U+00D6", "U+00D7",
      "U+00D8", "U+00D9", "U+00DA", "U+00DB", "U+00DC", "U+00DD", "U+00DE", "U+00DF",
      "U+00E0", "U+00E1", "U+00E2", "U+00E3", "U+00E4", "U+00E5", "U+00E6", "U+00E7",
      "U+00E8", EAcute
    >>

\* `c as u32`, on the chars of the model
as_u32(c) == (CHOOSE i \in 1..Len(CharTable) : CharTable[i] = c) - 1

\* char::from_u32(i).unwrap(), for a code point of the model
char_from_u32(i) == CharTable[i + 1]

\* the chars at code points lo to hi
CodeRange(lo, hi) == {CharTable[i + 1] : i \in lo..hi}

\* (0u8..=127).map(|b| b as char)
ascii_chars == CodeRange(0, 127)

\* char::is_ascii
is_ascii(c) == c \in ascii_chars

\* char::is_ascii_alphabetic
is_ascii_alphabetic(c) == c \in CodeRange(65, 90) \cup CodeRange(97, 122)

\* char::is_ascii_alphanumeric
is_ascii_alphanumeric(c) == is_ascii_alphabetic(c) \/ c \in CodeRange(48, 57)

\* the chars the bounded input texts are written with
LexChars == {"n", "-", "/", "\n", "\r", "\\", "[", "]", " ", EAcute}

\* `token ` : a text that reaches the keyword match
KeywordText == <<"t", "o", "k", "e", "n", " ">>

\* char::len_utf8
Utf8Len(c) == IF c = EAcute THEN 2 ELSE 1

\* String::len: the length in bytes
RECURSIVE byte_len(_)
byte_len(lexeme) ==
    IF lexeme = << >> THEN 0 ELSE Utf8Len(Head(lexeme)) + byte_len(Tail(lexeme))

\* char::is_alphanumeric, on the chars of the model
is_alphanumeric(c) == is_ascii_alphanumeric(c) \/ c = EAcute

NoChar == ""
NoState == "None"
NoToken == "None"

from_string(input) ==
    [state |-> "Initial", input |-> input, current_line |-> 0, current_col |-> 0,
     pos |-> 0, mode |-> "Default"]

\* self.input.get(p)
input_get(input, p) == IF 0 <= p /\ p < Len(input) THEN input[p + 1] ELSE NoChar

evaluate_escape_characters(lexeme) ==
    CASE lexeme = <<"\\", "n">> -> <<"\n">>
      [] lexeme = <<"\\", "t">> -> <<"\t">>
      [] lexeme = <<"\\", "f">> -> <<"\f">>
      [] lexeme = <<"\\", "v">> -> <<Backspace>>
      [] lexeme = <<"\\", "r">> -> <<"\r">>
      [] OTHER -> Tail(lexeme)

\* what one arm of `match self.state` decides: the next state and the token
\* to return (either may be None), and whether the arm rewinds or clears the
\* lexeme
Transition(next_state, return_token, rewinds, clears) ==
    [next_state |-> next_state, return_token |-> return_token,
     rewinds |-> rewinds, clears |-> clears]

initial_transition(c, mode) ==
    CASE c = " " -> IF mode = "Regex"
                    THEN Transition(NoState, "Characters", FALSE, FALSE)
                    ELSE Transition(NoState, NoToken, FALSE, TRUE)
      [] c \in {"\n", "\r"} -> Transition(NoState, NoToken, FALSE, FALSE)
      [] c = "-" -> Transition("Dash", NoToken, FALSE, FALSE)
      [] c = "/" -> Transition("ForwardSlash", NoToken, FALSE, FALSE)
      [] c = "[" -> Transition("BracketOpen", NoToken, FALSE, FALSE)
      [] c = "]" -> Transition(NoState, "BracketClose", FALSE, FALSE)
      [] c = "(" -> Transition(NoState, "ParenOpen", FALSE, FALSE)
      [] c = ")" -> Transition(NoState, "ParenClose", FALSE, FALSE)
      [] c = "\\" -> Transition("Escape", NoToken, FALSE, FALSE)
      [] c = "*" -> Transition(NoState, "Star", FALSE, FALSE)
      [] c = "+" -> Transition(NoState, "Plus", FALSE, FALSE)
      [] c = "?" -> Transition(NoState, "Question", FALSE, FALSE)
      [] c = "|" -> Transition(NoState, "Pipe", FALSE, FALSE)
      [] OTHER -> IF mode = "Regex"
                  THEN Transition(NoState, "Characters", FALSE, FALSE)
                  ELSE Transition("Characters", NoToken, FALSE, FALSE)

\* the keyword match on the rewound lexeme
keyword_token(lexeme) ==
    CASE lexeme = <<"c", "l", "a", "s", "s">> -> "Class"
      [] lexeme = <<"i", "g", "n", "o", "r", "e">> -> "Ignore"
      [] lexeme = <<"t", "o", "k", "e", "n">> -> "Token"
      [] OTHER -> "Characters"

\* String::pop
pop(lexeme) == IF lexeme = << >> THEN lexeme ELSE SubSeq(lexeme, 1, Len(lexeme) - 1)

\* lexeme is the lexeme after the push of c
characters_transition(c, lookahead, lexeme) ==
    IF lookahead = "-" THEN Transition("Initial", "Characters", TRUE, FALSE)
    ELSE IF is_alphanumeric(c) \/ c = "_" THEN Transition(NoState, NoToken, FALSE, FALSE)
    ELSE IF c = "-" THEN Transition("CharacterRange", NoToken, FALSE, FALSE)
    ELSE Transition("Initial", keyword_token(pop(lexeme)), TRUE, FALSE)

transition(state, c, lookahead, mode, lexeme) ==
    CASE state = "Initial" -> initial_transition(c, mode)
      [] state = "Characters" -> characters_transition(c, lookahead, lexeme)
      [] state = "BracketOpen" ->
            IF c = "^" THEN Transition("Initial", "BracketOpenNegate", FALSE, FALSE)
            ELSE Transition("Initial", "BracketOpen", TRUE, FALSE)
      [] state = "Escape" -> Transition("Initial", "Characters", FALSE, FALSE)
      [] state = "ForwardSlash" ->
            IF c = "/" THEN Transition("Comment", NoToken, FALSE, FALSE)
            ELSE Transition("Initial", "ForwardSlash", TRUE, FALSE)
      [] state = "Comment" ->
            IF c = "\n" THEN Transition("Initial", NoToken, FALSE, TRUE)
            ELSE Transition(NoState, NoToken, FALSE, FALSE)
      [] state = "Dash" ->
            IF c = "]" THEN Transition("Initial", "DashBracketClose", FALSE, FALSE)
            ELSE Transition("Initial", "Dash", TRUE, FALSE)
      [] state = "CharacterRange" -> Transition("Initial", "CharacterRange", FALSE, FALSE)

TokenEntry(token, lexeme, line, col) ==
    [token |-> token, lexeme |-> lexeme, line |-> line, col |-> col]

NoEntry == TokenEntry(NoToken, << >>, 0, 0)

\* the TokenEntry built for return token rt, and whether a subtraction in
\* its column went below zero
token_entry(rt, lexeme, current_line, current_col) ==
    IF rt = "Characters" /\ lexeme # << >> /\ Head(lexeme) = "\\"
    THEN LET escaped_lexeme == evaluate_escape_characters(lexeme)
             token_length == IF escaped_lexeme # lexeme THEN byte_len(lexeme) - 1
                             ELSE byte_len(lexeme)
         IN  [entry |-> TokenEntry(rt, escaped_lexeme, current_line,
                                   current_col - token_length),
              underflow |-> token_length < 0 \/ current_col < token_length]
    ELSE [entry |-> TokenEntry(rt, lexeme, current_line,
                               current_col - (byte_len(lexeme) - 1)),
          underflow |-> byte_len(lexeme) = 0 \/ current_col < byte_len(lexeme) - 1]

EOI_COL == 999999
EOI_LINE == 999999

\* what a call gives back: the lexer after it, the entry returned, whether a
\* subtraction went below zero, whether the call aborted, and (not in the
\* source) start, the position the returned token's text begins at: the
\* position of the last char the loop took in state Initial
CallResult(lx, entry, start, underflow, panicked) ==
    [lexer |-> lx, entry |-> entry, start |-> start, underflow |-> underflow,
     panicked |-> panicked]

\* the match after the loop
end_of_input(lx, start, underflow, build) ==
    IF lx.state = "ForwardSlash"
    THEN IF build = "debug" /\ lx.current_col < 1
         THEN CallResult(lx, NoEntry, start, TRUE, TRUE)
         ELSE CallResult([lx EXCEPT !.state = "Dash"],
                         TokenEntry("ForwardSlash", <<"/">>, lx.current_line,
                                    lx.current_col - 1),
                         start, underflow \/ lx.current_col < 1, FALSE)
    ELSE CallResult(lx, TokenEntry("EOI", << >>, EOI_LINE, EOI_COL), start,
                    underflow, FALSE)

\* let value be bound, then rest on it
Then(value, rest(_)) == rest(value)

\* `while self.pos < self.input.len()` and the match after it
RECURSIVE get_token_loop(_, _, _, _, _)
get_token_loop(lx, lexeme, start, underflow, build) ==
    IF ~(0 <= lx.pos /\ lx.pos < Len(lx.input))
    THEN end_of_input(lx, start, underflow, build)
    ELSE
    LET c         == input_get(lx.input, lx.pos)
        lookahead == input_get(lx.input, lx.pos + 1)
        pushed    == Append(lexeme, c)
        start1    == IF lx.state = "Initial" THEN lx.pos ELSE start
    IN  Then(transition(lx.state, c, lookahead, lx.mode, pushed), LAMBDA tr :
        \* rewind: pos -= 1, current_col -= 1, lexeme.pop()
        LET rewind_underflow == tr.rewinds /\ (lx.pos < 1 \/ lx.current_col < 1)
            pos1      == IF tr.rewinds THEN lx.pos - 1 ELSE lx.pos
            col1      == IF tr.rewinds THEN lx.current_col - 1 ELSE lx.current_col
            lexeme1   == IF tr.clears THEN << >>
                         ELSE IF tr.rewinds THEN pop(pushed) ELSE pushed
            state1    == IF tr.next_state = NoState THEN lx.state ELSE tr.next_state
        IN  Then(token_entry(tr.return_token, lexeme1, lx.current_line, col1),
                 LAMBDA built :
            LET entry_underflow == tr.return_token # NoToken /\ built.underflow
                at_newline == input_get(lx.input, pos1) = "\n"
                lx2       == [lx EXCEPT !.state = state1,
                                        !.current_line = IF at_newline THEN @ + 1 ELSE @,
                                        !.current_col = IF at_newline THEN 0 ELSE col1 + 1,
                                        !.pos = pos1 + 1]
                lexeme2   == IF at_newline THEN << >> ELSE lexeme1
                underflow2 == underflow \/ rewind_underflow \/ entry_underflow
            IN  IF build = "debug" /\ (rewind_underflow \/ entry_underflow)
                THEN CallResult(lx, NoEntry, start1, TRUE, TRUE)
                ELSE IF tr.return_token # NoToken
                THEN CallResult(lx2, built.entry, start1, underflow2, FALSE)
                ELSE get_token_loop(lx2, lexeme2, start1, underflow2, build)))

get_token(lx, build) == get_token_loop(lx, << >>, lx.pos, FALSE, build)

\* get_token, then pos and state put back
peek_token(lx, build) ==
    LET r == get_token(lx, build)
    IN  [r EXCEPT !.lexer.pos = lx.pos, !.lexer.state = lx.state]

-----------------------------------------------------------------------------
(* generate_lexer_program (src/src/lib.rs): the pipeline, one step per     *)
(* phase and one step per iteration of get_dfa's worklist loop.            *)

root_of(ast) == size(ast) - 1

NoMeta == << >>
NoTable == << >>
NoSerialized == [entry |-> 0, states |-> << >>, accepting |-> << >>, class_sets |-> << >>]

PipelineInit(inputs) ==
    /\ stmts \in inputs
    /\ tree = << >>
    /\ end_nodes = << >>
    /\ token_order = << >>
    /\ meta = NoMeta
    /\ follow_pos = NoTable
    /\ state_table = NoTable
    /\ queue = << >>
    /\ accepting_states = {}
    /\ state_ids = NoTable
    /\ serialized = NoSerialized
    /\ outputs = << >>
    /\ pc = "parse"

Parse ==
    /\ pc = "parse"
    /\ LET out == parse(stmts) IN
        /\ tree' = out.tree
        /\ end_nodes' = out.end_nodes
        /\ token_order' = out.token_order
        /\ pc' = IF size(out.tree) = 0 THEN "no_token_definitions" ELSE "get_meta"
    /\ UNCHANGED <<stmts, meta, follow_pos, state_table, queue, accepting_states,
                   state_ids, serialized, outputs>>
    /\ UNCHANGED lexer_vars
    /\ UNCHANGED parser_vars
    /\ UNCHANGED main_vars

GetMeta ==
    /\ pc = "get_meta"
    /\ meta' = get_meta(tree, root_of(tree))
    /\ pc' = "get_follow_pos"
    /\ UNCHANGED <<stmts, tree, end_nodes, token_order, follow_pos, state_table, queue,
                   accepting_states, state_ids, serialized, outputs>>
    /\ UNCHANGED lexer_vars
    /\ UNCHANGED parser_vars
    /\ UNCHANGED main_vars

GetFollowPos ==
    /\ pc = "get_follow_pos"
    /\ IF root_is_concat(tree, root_of(tree))
       THEN /\ follow_pos' = get_follow_pos(tree, meta, root_of(tree))
            /\ pc' = "get_dfa"
       ELSE /\ follow_pos' = follow_pos
            /\ pc' = "panicked"
    /\ UNCHANGED <<stmts, tree, end_nodes, token_order, meta, state_table, queue,
                   accepting_states, state_ids, serialized, outputs>>
    /\ UNCHANGED lexer_vars
    /\ UNCHANGED parser_vars
    /\ UNCHANGED main_vars

GetDfaStart ==
    /\ pc = "get_dfa"
    /\ LET entry == get(meta, root_of(tree)).first_pos IN
        /\ state_table' = (entry :> {})
        /\ queue' = <<entry>>
    /\ accepting_states' = {}
    /\ pc' = "get_dfa_loop"
    /\ UNCHANGED <<stmts, tree, end_nodes, token_order, meta, follow_pos, state_ids,
                   serialized, outputs>>
    /\ UNCHANGED lexer_vars
    /\ UNCHANGED parser_vars
    /\ UNCHANGED main_vars

GetDfaLoop ==
    /\ pc = "get_dfa_loop"
    /\ Len(queue) > 0
    /\ \E order \in Orders(DOMAIN group_nodes_by_char(Head(queue), tree)) :
        LET b == dfa_loop_body([state_table |-> state_table, queue |-> queue,
                                accepting_states |-> accepting_states,
                                panicked |-> FALSE],
                               tree, follow_pos, order)
        IN  /\ state_table' = b.state_table
            /\ queue' = b.queue
            /\ accepting_states' = b.accepting_states
            /\ pc' = IF b.panicked THEN "panicked" ELSE "get_dfa_loop"
    /\ UNCHANGED <<stmts, tree, end_nodes, token_order, meta, follow_pos, state_ids,
                   serialized, outputs>>
    /\ UNCHANGED lexer_vars
    /\ UNCHANGED parser_vars
    /\ UNCHANGED main_vars

GetDfaReturn ==
    /\ pc = "get_dfa_loop"
    /\ Len(queue) = 0
    /\ pc' = "serialize_dfa"
    /\ UNCHANGED <<stmts, tree, end_nodes, token_order, meta, follow_pos, state_table,
                   queue, accepting_states, state_ids, serialized, outputs>>
    /\ UNCHANGED lexer_vars
    /\ UNCHANGED parser_vars
    /\ UNCHANGED main_vars

SerializeDfa ==
    /\ pc = "serialize_dfa"
    /\ \E key_order \in Orders(DOMAIN state_table) :
        /\ state_ids' = state_ids_of(key_order)
        /\ serialized' = serialize_dfa(state_table, get(meta, root_of(tree)).first_pos,
                                       end_nodes, token_order, key_order)
    /\ pc' = "to_string_pretty"
    /\ UNCHANGED <<stmts, tree, end_nodes, token_order, meta, follow_pos, state_table,
                   queue, accepting_states, outputs>>
    /\ UNCHANGED lexer_vars
    /\ UNCHANGED parser_vars
    /\ UNCHANGED main_vars

ToStringPretty ==
    /\ pc = "to_string_pretty"
    /\ \E states_order \in Orders(DOMAIN serialized.states),
          accepting_order \in Orders(DOMAIN serialized.accepting),
          symbol_orders \in SymbolOrders(serialized) :
        outputs' = Append(outputs, to_string_pretty(serialized, states_order,
                                                    accepting_order, symbol_orders))
    /\ pc' = "done"
    /\ UNCHANGED <<stmts, tree, end_nodes, token_order, meta, follow_pos, state_table,
                   queue, accepting_states, state_ids, serialized>>
    /\ UNCHANGED lexer_vars
    /\ UNCHANGED parser_vars
    /\ UNCHANGED main_vars

\* the pipeline at rest, while the lexer is exercised on its own
PipelineIdle == PipelineInit({<< >>})

\* the lexer at rest, while the pipeline runs on statements
LexerIdle ==
    /\ lexer = from_string(<< >>)
    /\ profile = "debug"
    /\ status = "ok"
    /\ last = "none"
    /\ prev = "none"
    /\ peeks = 0
    /\ eoi_returned = FALSE

\* no text has been parsed
NotParsed == [kind |-> "none"]

\* the process is running
Running == -1

\* no driver text written
NoContents == [token_entries |-> << >>, state_token_mapping |-> << >>,
               written |-> FALSE]

\* the parser at rest, main not under way
ParserIdle ==
    /\ parse_result = NotParsed
    /\ files = {}
    /\ driver_file_contents = NoContents
    /\ exit_code = Running

vars == <<pipeline_vars, lexer_vars, parser_vars, main_vars>>

Init == PipelineInit(BoundedInputs \cup ScenarioInputs) /\ LexerIdle /\ ParserIdle

Next ==
    \/ Parse
    \/ GetMeta
    \/ GetFollowPos
    \/ GetDfaStart
    \/ GetDfaLoop
    \/ GetDfaReturn
    \/ SerializeDfa
    \/ ToStringPretty

Spec == Init /\ [][Next]_vars

\* the pipeline on the two scenario inputs alone
InitScenarios == PipelineInit(ScenarioInputs) /\ LexerIdle /\ ParserIdle

SpecScenarios == InitScenarios /\ [][Next]_vars

\* A further run of the program on the same input text (src/src/main.rs, main):
\* everything but the text starts afresh; the JSON texts of the runs are kept
\* for comparison.
Rerun ==
    /\ pc = "done"
    /\ Len(outputs) < MaxRuns
    /\ tree' = << >>
    /\ end_nodes' = << >>
    /\ token_order' = << >>
    /\ meta' = NoMeta
    /\ follow_pos' = NoTable
    /\ state_table' = NoTable
    /\ queue' = << >>
    /\ accepting_states' = {}
    /\ state_ids' = NoTable
    /\ serialized' = NoSerialized
    /\ pc' = "parse"
    /\ UNCHANGED <<stmts, outputs>>
    /\ UNCHANGED lexer_vars
    /\ UNCHANGED parser_vars
    /\ UNCHANGED main_vars

RunInputs == {InputS1} \cup UNION {StmtLists(1, n) : n \in 1..MaxRunNodes}

InitRuns == PipelineInit(RunInputs) /\ LexerIdle /\ ParserIdle

NextRuns ==
    \/ Parse
    \/ GetMeta
    \/ GetFollowPos
    \/ GetDfaStart
    \/ GetDfaLoop
    \/ GetDfaReturn
    \/ SerializeDfa
    \/ ToStringPretty
    \/ Rerun

SpecRuns == InitRuns /\ [][NextRuns]_vars


-----------------------------------------------------------------------------
(* The lexer and its caller: calls of get_token and peek_token in any      *)
(* order, with the caller setting the public field `mode` between calls.   *)

\* texts of exactly n chars
RECURSIVE TextsOfLen(_)
TextsOfLen(n) ==
    IF n = 0 THEN {<< >>}
    ELSE {Append(w, c) : w \in TextsOfLen(n - 1), c \in LexChars}

\* the escapes of test_escape_characters, and an escaped operator
EscapeTexts == {<<"\\", c>> : c \in {"t", "f", "v", "r", "%", "*"}}

LexInputs == UNION {TextsOfLen(n) : n \in 0..MaxInput} \cup {KeywordText} \cup EscapeTexts

CallRecord(op, entry, mode, start, pos_before, after_eoi) ==
    [op |-> op, entry |-> entry, mode |-> mode, start |-> start,
     pos_before |-> pos_before, after_eoi |-> after_eoi]

NoCall == CallRecord("none", NoEntry, "Default", 0, 0, FALSE)

LexerInit(inputs, profiles) ==
    /\ lexer \in {from_string(input) : input \in inputs}
    /\ profile \in profiles
    /\ status = "ok"
    /\ last = NoCall
    /\ prev = NoCall
    /\ peeks = 0
    /\ eoi_returned = FALSE

\* the lexer variables after a call with result r
Returned(op, r) ==
    /\ status' = IF r.panicked THEN "panicked"
                 ELSE IF r.underflow THEN "wrapped" ELSE status
    /\ lexer' = IF r.panicked THEN lexer ELSE r.lexer
    /\ last' = IF r.panicked THEN last
               ELSE CallRecord(op, r.entry, lexer.mode, r.start, lexer.pos, eoi_returned)
    /\ prev' = IF r.panicked THEN prev ELSE last
    /\ eoi_returned' = (eoi_returned \/ (op = "get" /\ r.entry.token = "EOI"))

\* a call can be made as long as no call has aborted
CanCall == status # "panicked"

GetToken ==
    /\ CanCall
    /\ Returned("get", get_token(lexer, profile))
    /\ UNCHANGED <<profile, peeks>>
    /\ UNCHANGED pipeline_vars
    /\ UNCHANGED parser_vars
    /\ UNCHANGED main_vars

PeekToken ==
    /\ CanCall
    /\ peeks < MaxPeeks
    /\ Returned("peek", peek_token(lexer, profile))
    /\ peeks' = peeks + 1
    /\ UNCHANGED profile
    /\ UNCHANGED pipeline_vars
    /\ UNCHANGED parser_vars
    /\ UNCHANGED main_vars

SetMode ==
    /\ CanCall
    /\ lexer' = [lexer EXCEPT !.mode = IF @ = "Default" THEN "Regex" ELSE "Default"]
    /\ UNCHANGED <<profile, status, last, prev, peeks, eoi_returned>>
    /\ UNCHANGED pipeline_vars
    /\ UNCHANGED parser_vars
    /\ UNCHANGED main_vars

InitLex == LexerInit(LexInputs, {"debug", "release"}) /\ PipelineIdle /\ ParserIdle

NextLex ==
    \/ GetToken
    \/ PeekToken
    \/ SetMode

SpecLex == InitLex /\ [][NextLex]_vars

-----------------------------------------------------------------------------
(* Parser on the text (src/src/parser.rs): the recursive descent over the  *)
(* tokens the lexer gives.  A match function takes the context and the     *)
(* build profile and gives a Result: the context after it, Ok with a value *)
(* (a bool, or a node position with NoNode for None), Err with a message   *)
(* and a token, or Panic when the call aborted.  Messages are given by     *)
(* their fixed text, without the formatted lexeme.                         *)

\* ASTNode::Id, as the parser builds it
Id(name) ==
    [kind |-> "Id", ch |-> "", child |-> 0, left |-> 0, right |-> 0, id |-> name]

\* Option<NodeRef>: None
NoNode == -1

ClassSetEntry(chars, operator) == [chars |-> chars, operator |-> operator]

\* the ParserContext of parse for a lexer; underflow (not in the source)
\* records that a subtraction of the lexer has wrapped around, and
\* regex_mode_calls (not in the source) counts the calls of the lexer made
\* with the lexer in Regex mode outside the two calls of match_rfactor that
\* set the mode
ParserContext(lx) ==
    [lexer |-> lx, tree |-> << >>, leaf_nodes |-> << >>, token_order |-> << >>,
     accepting_nodes |-> << >>, class_lookup_table |-> << >>, underflow |-> FALSE,
     regex_mode_calls |-> 0]

ResultOk(ctx, val) ==
    [ctx |-> ctx, kind |-> "Ok", val |-> val, message |-> "", token |-> NoEntry]

ParserErr(ctx, message, token) ==
    [ctx |-> ctx, kind |-> "Err", val |-> NoNode, message |-> message, token |-> token]

ResultPanic(ctx, message) ==
    [ctx |-> ctx, kind |-> "Panic", val |-> NoNode, message |-> message, token |-> NoEntry]

\* the context after a call of the lexer that gave r
Lexed(ctx, r) == [ctx EXCEPT !.lexer = r.lexer, !.underflow = @ \/ r.underflow]

\* the context after tree.add(node); the position added is size(ctx.tree)
TreeAdd(ctx, node) == [ctx EXCEPT !.tree = arena_add(@, node)]

\* a map with key k set to v
map_insert(map, k, v) == (k :> v) @@ map

is_identifier(lexeme) ==
    IF lexeme = << >> THEN FALSE
    ELSE /\ is_ascii_alphabetic(Head(lexeme)) \/ Head(lexeme) = "_"
         /\ \A i \in 2..Len(lexeme) : is_ascii_alphanumeric(lexeme[i]) \/ lexeme[i] = "_"

\* the lexer a call is made on: with "Regex", the call stands between
\* `ctx.lexer.mode = LexerMode::Regex` and `ctx.lexer.mode = LexerMode::Default`
\* (match_rfactor); with "Default", the call is made on the lexer as it is
lexer_for_call(ctx, mode) ==
    IF mode = "Regex" THEN [ctx.lexer EXCEPT !.mode = "Regex"] ELSE ctx.lexer

\* the context after such a call that gave r
after_call(ctx, mode, r) ==
    IF mode = "Regex" THEN [Lexed(ctx, r) EXCEPT !.lexer.mode = "Default"]
    ELSE [Lexed(ctx, r) EXCEPT
             !.regex_mode_calls = IF ctx.lexer.mode = "Regex" THEN @ + 1 ELSE @]

\* ctx.lexer.get_token(), then rest on the context after the call and the
\* token; a call that aborts ends the parse
with_token(ctx, mode, build, rest(_, _)) ==
    Then(get_token(lexer_for_call(ctx, mode), build),
         LAMBDA g : IF g.panicked THEN ResultPanic(ctx, "lexer")
                    ELSE rest(after_call(ctx, mode, g), g.entry))

\* ctx.lexer.peek_token() in the same way
with_peek(ctx, mode, build, rest(_, _)) ==
    Then(peek_token(lexer_for_call(ctx, mode), build),
         LAMBDA p : IF p.panicked THEN ResultPanic(ctx, "lexer")
                    ELSE rest(after_call(ctx, mode, p), p.entry))

\* `let Some(node) = result? else { return Ok(None) }`, then rest on the result
with_node(result, rest(_)) ==
    Then(result, LAMBDA r : IF r.kind # "Ok" \/ r.val = NoNode THEN r ELSE rest(r))

\* `if !result? { return Ok(false) }`, then rest on the result
with_true(result, rest(_)) ==
    Then(result, LAMBDA r : IF r.kind # "Ok" \/ ~r.val THEN r ELSE rest(r))

\* tree.add(node) of a leaf, the leaf pushed on leaf_nodes
add_leaf(ctx, node) ==
    ResultOk([TreeAdd(ctx, node) EXCEPT !.leaf_nodes = Append(@, size(ctx.tree))],
             size(ctx.tree))

\* tree.add(node) of an inner node
add_node(ctx, node) == ResultOk(TreeAdd(ctx, node), size(ctx.tree))

RECURSIVE match_regex(_, _), match_rterm(_, _), match_rclosure(_, _), match_rfactor(_, _)

\* the Characters arm without `ctx.lexer.mode = LexerMode::Default` after the
\* atom is taken
rfactor_characters_mode_kept(ctx1, peek, build) ==
    IF byte_len(peek.lexeme) # 1
    THEN ResultPanic(ctx1, "Got unexpected multiple characters")
    ELSE Then(get_token([ctx1.lexer EXCEPT !.mode = "Regex"], build),
           LAMBDA g :
             IF g.panicked THEN ResultPanic(ctx1, "lexer")
             ELSE IF ~is_ascii(peek.lexeme[1])
             THEN ParserErr(Lexed(ctx1, g), "Unsupported character", peek)
             ELSE add_leaf(Lexed(ctx1, g), Character(peek.lexeme[1])))

\* rFactor: the Characters arm
rfactor_characters(ctx1, peek, build) ==
    IF byte_len(peek.lexeme) # 1
    THEN ResultPanic(ctx1, "Got unexpected multiple characters")
    ELSE with_token(ctx1, "Regex", build,
           LAMBDA ctx2, token :
             IF ~is_ascii(peek.lexeme[1])
             THEN ParserErr(ctx2, "Unsupported character", peek)
             ELSE add_leaf(ctx2, Character(peek.lexeme[1])))

\* rfactor_class with the closing ']' read before the class is looked up
rfactor_class_close_first(ctx1, build) ==
    with_token(ctx1, "Default", build,
      LAMBDA ctx2, open :
        with_token(ctx2, "Default", build,
          LAMBDA ctx3, id_token :
            IF id_token.token # "Characters" THEN ResultOk(ctx3, NoNode)
            ELSE with_token(ctx3, "Default", build,
                   LAMBDA ctx4, close :
                     IF close.token # "BracketClose"
                     THEN ParserErr(ctx4,
                            "Expected closing ']' for character class reference", close)
                     ELSE IF id_token.lexeme \notin DOMAIN ctx4.class_lookup_table
                     THEN ParserErr(ctx4, "Undefined class identifier", id_token)
                     ELSE add_leaf(ctx4, Id(id_token.lexeme)))))

\* rFactor: the BracketOpen arm
rfactor_class(ctx1, build) ==
    with_token(ctx1, "Default", build,
      LAMBDA ctx2, open :
        with_token(ctx2, "Default", build,
          LAMBDA ctx3, id_token :
            IF id_token.token # "Characters" THEN ResultOk(ctx3, NoNode)
            ELSE IF id_token.lexeme \notin DOMAIN ctx3.class_lookup_table
            THEN ParserErr(ctx3, "Undefined class identifier", id_token)
            ELSE with_token(ctx3, "Default", build,
                   LAMBDA ctx4, close :
                     IF close.token # "BracketClose"
                     THEN ParserErr(ctx4,
                            "Expected closing ']' for character class reference", close)
                     ELSE add_leaf(ctx4, Id(id_token.lexeme)))))

\* rFactor: the ParenOpen arm
rfactor_group(ctx1, build) ==
    with_token(ctx1, "Default", build,
      LAMBDA ctx2, open :
        with_node(match_regex(ctx2, build),
          LAMBDA inner :
            with_token(inner.ctx, "Default", build,
              LAMBDA ctx3, close :
                IF close.token = "ParenClose" THEN ResultOk(ctx3, inner.val)
                ELSE ParserErr(ctx3, "Expected closing ')' for regex", close))))

match_rfactor(ctx, build) ==
    with_peek(ctx, "Regex", build,
      LAMBDA ctx1, peek :
        CASE peek.token = "Characters" -> rfactor_characters(ctx1, peek, build)
          [] peek.token = "BracketOpen" -> rfactor_class(ctx1, build)
          [] peek.token = "ParenOpen" -> rfactor_group(ctx1, build)
          [] OTHER -> ResultOk(ctx1, NoNode))

match_rclosure(ctx, build) ==
    with_node(match_rfactor(ctx, build),
      LAMBDA factor :
        with_peek(factor.ctx, "Default", build,
          LAMBDA ctx1, peek :
            IF peek.token \notin {"Star", "Plus", "Question"}
            THEN ResultOk(ctx1, factor.val)
            ELSE with_token(ctx1, "Default", build,
                   LAMBDA ctx2, operator :
                     add_node(ctx2, Unary(peek.token, factor.val)))))

match_rterm(ctx, build) ==
    with_node(match_rclosure(ctx, build),
      LAMBDA closure :
        Then(match_rterm(closure.ctx, build),
          LAMBDA right :
            IF right.kind # "Ok" THEN right
            ELSE IF right.val = NoNode THEN ResultOk(right.ctx, closure.val)
            ELSE add_node(right.ctx, Binary("Concat", closure.val, right.val))))

match_regex(ctx, build) ==
    with_node(match_rterm(ctx, build),
      LAMBDA rterm :
        with_peek(rterm.ctx, "Default", build,
          LAMBDA ctx1, peek :
            IF peek.token # "Pipe" THEN ResultOk(ctx1, rterm.val)
            ELSE with_token(ctx1, "Default", build,
                   LAMBDA ctx2, pipe :
                     Then(match_regex(ctx2, build),
                       LAMBDA right :
                         IF right.kind # "Ok" THEN right
                         ELSE IF right.val = NoNode
                         THEN ParserErr(right.ctx, "Unexpected end of regex.", pipe)
                         ELSE add_node(right.ctx,
                                       Binary("Union", rterm.val, right.val))))))

\* end_regex with the Concat added before the '#' leaf it refers to
end_regex_concat_first(regex, token_id) ==
    IF regex.val = NoNode THEN regex
    ELSE ResultOk([TreeAdd(TreeAdd(regex.ctx,
                                   Binary("Concat", regex.val, size(regex.ctx.tree) + 1)),
                           Character("#")) EXCEPT
                      !.accepting_nodes =
                          map_insert(@, size(regex.ctx.tree) + 1, token_id)],
                  size(regex.ctx.tree))

\* the '#' leaf recorded against token_id and Concat(regex, #), for a regex
\* that is there
end_regex(regex, token_id) ==
    IF regex.val = NoNode THEN regex
    ELSE add_node([TreeAdd(regex.ctx, Character("#")) EXCEPT
                      !.accepting_nodes = map_insert(@, size(regex.ctx.tree), token_id)],
                  Binary("Concat", regex.val, size(regex.ctx.tree)))

\* regexStmt on the text: '/', the regex, its end, then '/'
match_regex_stmt_text(ctx, token_id, build) ==
    with_token(ctx, "Default", build,
      LAMBDA ctx1, open :
        IF open.token # "ForwardSlash"
        THEN ParserErr(ctx1, "Regex definitions must start with '/'.", open)
        ELSE Then(match_regex(ctx1, build),
               LAMBDA regex :
                 IF regex.kind # "Ok" THEN regex
                 ELSE Then(end_regex(regex, token_id),
                        LAMBDA ended :
                          with_token(ended.ctx, "Default", build,
                            LAMBDA ctx3, close :
                              IF close.token # "ForwardSlash"
                              THEN ParserErr(ctx3,
                                     "Regex definitions must end with '/'.", close)
                              ELSE ResultOk(ctx3, ended.val)))))

\* add_regex_subtree with the operands of the Union exchanged: the new
\* subtree on the left, the tree so far on the right
add_regex_subtree_on_left(ctx, token_id, build) ==
    Then(match_regex_stmt_text(ctx, token_id, build),
      LAMBDA regex_node :
        IF regex_node.kind # "Ok" THEN regex_node
        ELSE IF regex_node.val # NoNode /\ size(ctx.tree) > 0
        THEN ResultOk(TreeAdd(regex_node.ctx,
                              Binary("Union", regex_node.val, size(ctx.tree) - 1)),
                      TRUE)
        ELSE ResultOk(regex_node.ctx, TRUE))

add_regex_subtree_text(ctx, token_id, build) ==
    Then(match_regex_stmt_text(ctx, token_id, build),
      LAMBDA regex_node :
        IF regex_node.kind # "Ok" THEN regex_node
        ELSE IF regex_node.val # NoNode /\ size(ctx.tree) > 0
        THEN ResultOk(TreeAdd(regex_node.ctx,
                              Binary("Union", size(ctx.tree) - 1, regex_node.val)),
                      TRUE)
        ELSE ResultOk(regex_node.ctx, TRUE))

\* the chars one class item adds: those of a Characters lexeme, or the code
\* points from the first to the third char of a CharacterRange lexeme
c_item_chars(lexeme) == {lexeme[i] : i \in 1..Len(lexeme)}

c_item_range(lexeme) ==
    {char_from_u32(i) : i \in as_u32(lexeme[1])..as_u32(lexeme[3])}

class_insert(table, class_name, chars) ==
    [table EXCEPT ![class_name].chars = @ \cup chars]

match_c_item(ctx, class_name, build) ==
    with_token(ctx, "Default", build,
      LAMBDA ctx1, current_token :
        IF current_token.token = "Characters"
        THEN ResultOk([ctx1 EXCEPT !.class_lookup_table =
                          class_insert(@, class_name, c_item_chars(current_token.lexeme))],
                      TRUE)
        ELSE IF current_token.token = "CharacterRange"
        THEN IF Len(current_token.lexeme) < 3
             THEN ResultPanic(ctx1, "unwrap on None")
             ELSE IF as_u32(current_token.lexeme[1]) > as_u32(current_token.lexeme[3])
             THEN ParserErr(ctx1, "Invalid character range", current_token)
             ELSE ResultOk([ctx1 EXCEPT !.class_lookup_table =
                               class_insert(@, class_name,
                                            c_item_range(current_token.lexeme))],
                           TRUE)
        ELSE ParserErr(ctx1, "Unexpected token", current_token))

RECURSIVE match_c_item_list(_, _, _)
match_c_item_list(ctx, class_name, build) ==
    with_peek(ctx, "Default", build,
      LAMBDA ctx1, peek :
        IF peek.token = "BracketClose" THEN ResultOk(ctx1, TRUE)
        ELSE with_true(match_c_item(ctx1, class_name, build),
               LAMBDA item : match_c_item_list(item.ctx, class_name, build)))

\* class_lookup_table.insert(name, ClassSetEntry { chars: {}, operator })
class_declare(ctx, class_name, set_start) ==
    [ctx EXCEPT !.class_lookup_table =
        map_insert(@, class_name,
                   ClassSetEntry({}, IF set_start.token = "BracketOpen"
                                     THEN "Include" ELSE "Negate"))]

\* classStmt from the '[' on: the items, then the ']'
match_class_set(ctx5, class_name, set_start, build) ==
    IF set_start.token \notin {"BracketOpen", "BracketOpenNegate"}
    THEN ParserErr(ctx5, "Expected '['", set_start)
    ELSE with_true(match_c_item_list(class_declare(ctx5, class_name, set_start),
                                     class_name, build),
           LAMBDA items :
             with_token(items.ctx, "Default", build,
               LAMBDA ctx7, set_end :
                 IF set_end.token \notin {"BracketClose", "DashBracketClose"}
                 THEN ParserErr(ctx7, "Expected ']'", set_end)
                 ELSE ResultOk(ctx7, TRUE)))

match_class_stmt(ctx, build) ==
    with_peek(ctx, "Default", build,
      LAMBDA ctx1, peek :
        IF peek.token # "Class" THEN ResultOk(ctx1, FALSE)
        ELSE with_token(ctx1, "Default", build,
          LAMBDA ctx2, class :
            with_peek(ctx2, "Default", build,
              LAMBDA ctx3, identifier :
                IF identifier.token # "Characters"
                THEN ParserErr(ctx3, "Unexpected token", identifier)
                ELSE IF ~is_identifier(identifier.lexeme)
                THEN ParserErr(ctx3, "Invalid class identifier", identifier)
                ELSE with_token(ctx3, "Default", build,
                  LAMBDA ctx4, current_class :
                    with_token(ctx4, "Default", build,
                      LAMBDA ctx5, set_start :
                        match_class_set(ctx5, current_class.lexeme, set_start, build))))))

match_token_stmt_text(ctx, build) ==
    with_peek(ctx, "Default", build,
      LAMBDA ctx1, peek :
        IF peek.token # "Token" THEN ResultOk(ctx1, FALSE)
        ELSE with_token(ctx1, "Default", build,
          LAMBDA ctx2, token :
            with_token(ctx2, "Default", build,
              LAMBDA ctx3, identifier :
                IF identifier.token # "Characters"
                THEN ParserErr(ctx3, "Unexpected token", identifier)
                ELSE IF ~is_identifier(identifier.lexeme)
                THEN ParserErr(ctx3, "Invalid token identifier", identifier)
                ELSE add_regex_subtree_text(
                       [ctx3 EXCEPT !.token_order = Append(@, identifier.lexeme)],
                       identifier.lexeme, build))))

\* match_ignore_stmt with a push of the sentinel on token_order, as
\* match_token_stmt pushes the name
match_ignore_stmt_pushing(ctx, build) ==
    with_peek(ctx, "Default", build,
      LAMBDA ctx1, peek :
        IF peek.token # "Ignore" THEN ResultOk(ctx1, FALSE)
        ELSE with_token(ctx1, "Default", build,
               LAMBDA ctx2, ignore :
                 add_regex_subtree_text(
                   [ctx2 EXCEPT !.token_order = Append(@, <<"!">>)], <<"!">>, build)))

match_ignore_stmt_text(ctx, build) ==
    with_peek(ctx, "Default", build,
      LAMBDA ctx1, peek :
        IF peek.token # "Ignore" THEN ResultOk(ctx1, FALSE)
        ELSE with_token(ctx1, "Default", build,
               LAMBDA ctx2, ignore : add_regex_subtree_text(ctx2, <<"!">>, build)))

\* match_class_stmt(ctx)? || match_token_stmt(ctx)? || match_ignore_stmt(ctx)?
match_stmt_text(ctx, build) ==
    Then(match_class_stmt(ctx, build),
      LAMBDA class :
        IF class.kind # "Ok" \/ class.val THEN class
        ELSE Then(match_token_stmt_text(class.ctx, build),
               LAMBDA token :
                 IF token.kind # "Ok" \/ token.val THEN token
                 ELSE match_ignore_stmt_text(token.ctx, build)))

RECURSIVE match_stmt_list_text(_, _)
match_stmt_list_text(ctx, build) ==
    with_peek(ctx, "Default", build,
      LAMBDA ctx1, first :
        with_peek(ctx1, "Default", build,
          LAMBDA ctx2, peek :
            IF peek.token = "EOI" THEN ResultOk(ctx2, TRUE)
            ELSE with_true(match_stmt_text(ctx2, build),
                   LAMBDA stmt : match_stmt_list_text(stmt.ctx, build))))

\* class_chars without the match on the operator: the chars of the set as
\* they are, for a Negate set too
class_chars_as_included(class_set) == class_set.chars

\* the chars a class stands for
class_chars(class_set) ==
    IF class_set.operator = "Include" THEN class_set.chars
    ELSE ascii_chars \ class_set.chars

\* alphabet.entry(c).or_insert(HashSet::new()).insert(node_ref), for each c of chars
alphabet_insert(alphabet, chars, node_ref) ==
    [c \in DOMAIN alphabet \cup chars |->
        IF c \in chars
        THEN (IF c \in DOMAIN alphabet THEN alphabet[c] ELSE {}) \cup {node_ref}
        ELSE alphabet[c]]

\* the loop of get_disjoint_alphabet from terminal node i on
RECURSIVE disjoint_alphabet_from(_, _, _, _, _)
disjoint_alphabet_from(terminal_nodes, ast, class_lookup_table, i, alphabet) ==
    IF i > Len(terminal_nodes) THEN alphabet
    ELSE LET node_ref == terminal_nodes[i]
             node     == get(ast, node_ref)
             chars    == IF node.kind = "Character" THEN {node.ch}
                         ELSE class_chars(class_lookup_table[node.id])
         IN  disjoint_alphabet_from(terminal_nodes, ast, class_lookup_table, i + 1,
                                    alphabet_insert(alphabet, chars, node_ref))

get_disjoint_alphabet(terminal_nodes, ast, class_lookup_table) ==
    disjoint_alphabet_from(terminal_nodes, ast, class_lookup_table, 1, << >>)

get_node_input_symbols(alphabet) ==
    LET node_refs == UNION {alphabet[c] : c \in DOMAIN alphabet}
    IN  [node_ref \in node_refs |-> {c \in DOMAIN alphabet : node_ref \in alphabet[c]}]

\* the end nodes get '#' as their input symbol
end_node_symbols(node_input_symbols, accepting_nodes) ==
    [node_ref \in DOMAIN node_input_symbols \cup DOMAIN accepting_nodes |->
        IF node_ref \in DOMAIN accepting_nodes THEN {"#"}
        ELSE node_input_symbols[node_ref]]

\* what parse gives: Ok with the ParserOutput, Err with the ParserErr, or
\* Panic; lexer is the lexer after the call; alphabet (a local of parse) is
\* kept with the output
ParseOutcome(kind, message, token, ctx, tree0, order, alphabet, node_input_symbols) ==
    [kind |-> kind, message |-> message, token |-> token, lexer |-> ctx.lexer,
     underflow |-> ctx.underflow, regex_mode_calls |-> ctx.regex_mode_calls,
     class_lookup_table |-> ctx.class_lookup_table,
     node_input_symbols |-> node_input_symbols,
     token_order |-> order, end_nodes |-> ctx.accepting_nodes, tree |-> tree0,
     terminal_nodes |-> ctx.leaf_nodes, alphabet |-> alphabet]

parse_text(lx, build) ==
    Then(match_stmt_list_text(ParserContext(lx), build), LAMBDA list :
      IF list.kind # "Ok"
      THEN ParseOutcome(list.kind, list.message, list.token, list.ctx, list.ctx.tree,
                        list.ctx.token_order, << >>, << >>)
      ELSE Then(IF size(list.ctx.tree) > 0
                THEN arena_add(arena_add(list.ctx.tree, Character("#")),
                               Binary("Concat", size(list.ctx.tree) - 1,
                                      size(list.ctx.tree)))
                ELSE list.ctx.tree,
             LAMBDA tr :
               Then(get_disjoint_alphabet(list.ctx.leaf_nodes, tr,
                                          list.ctx.class_lookup_table),
                 LAMBDA alphabet :
                   ParseOutcome("Ok", "", NoEntry, list.ctx, tr,
                                Append(list.ctx.token_order, <<"!">>), alphabet,
                                end_node_symbols(get_node_input_symbols(alphabet),
                                                 list.ctx.accepting_nodes)))))

-----------------------------------------------------------------------------
(* parse on a text: the lexer is made from the text (Lexer::from_string),  *)
(* then parse runs on it (src/src/lib.rs, generate_lexer_program).         *)

KwToken == <<"t", "o", "k", "e", "n">>
KwIgnore == <<"i", "g", "n", "o", "r", "e">>
KwClass == <<"c", "l", "a", "s", "s">>

\* token <name> /<body>/
TokenText(name, body) == KwToken \o <<" ">> \o name \o <<" ", "/">> \o body \o <<"/">>
\* ignore /<body>/
IgnoreText(body) == KwIgnore \o <<" ", "/">> \o body \o <<"/">>
\* class <name> <body>, the body with its brackets
ClassText(name, body) == KwClass \o <<" ">> \o name \o <<" ">> \o body
\* two statements on two lines
Lines(first, second) == first \o <<"\n">> \o second

\* sequences over chars of at most n chars
RECURSIVE SeqsUpTo(_, _)
SeqsUpTo(chars, n) ==
    IF n = 0 THEN {<< >>}
    ELSE LET shorter == SeqsUpTo(chars, n - 1)
         IN  shorter \cup {Append(w, c) : w \in {v \in shorter : Len(v) = n - 1}, c \in chars}

\* chars of a regex body of the bounded texts
MaxBody == 3
BodyChars == {"a", " ", "*", "|", "(", ")"}
\* chars of a regex body with an escape or a char outside ASCII
MaxEscBody == 2
EscBodyChars == {"\\", "n", "v", "*", " ", "/", "]", "-", EAcute}
\* chars between the brackets of a class statement
MaxClassBody == 4
ClassBodyChars == {"a", "c", "-", " ", "\r", EAcute}
\* statements of a text of several statements
MaxTextStmts == 2

\* ignore /(a+|b*) /                         (test_ignore_stmt)
TextIgnoreTest ==
    IgnoreText(<<"(", "a", "+", "|", "b", "*", ")", " ">>)
\* class alpha [a-cG-I_1-3z5]                (test_match_class_stmt)
TextClassTest ==
    ClassText(<<"a", "l", "p", "h", "a">>,
              <<"[", "a", "-", "c", "G", "-", "I", "_", "1", "-", "3", "z", "5", "]">>)
\* class ws [ \t\n] newline ignore /[ws]+/ newline token Id /[ws]/
\*                                            (scenario S3 of the specification)
TextS3 ==
    Lines(ClassText(<<"w", "s">>, <<"[", " ", "\\", "t", "\\", "n", "]">>),
          Lines(IgnoreText(<<"[", "w", "s", "]", "+">>),
                TokenText(<<"I", "d">>, <<"[", "w", "s", "]">>)))
\* class n [^b] newline token T /[n]a/
TextNegate ==
    Lines(ClassText(<<"n">>, <<"[", "^", "b", "]">>),
          TokenText(<<"T">>, <<"[", "n", "]", "a">>))
\* ignore /( a)/ and ignore /a| b/
TextSpaceAfterParen == IgnoreText(<<"(", " ", "a", ")">>)
TextSpaceAfterPipe == IgnoreText(<<"a", "|", " ", "b">>)

\* what a statement position of the bounded texts holds: a statement, or
\* a token that starts no statement
StmtTexts ==
    {TokenText(<<"A">>, <<"a">>), TokenText(<<"B">>, <<"b">>), IgnoreText(<<"a">>),
     ClassText(<<"w">>, <<"[", "a", "]">>), <<"a">>, <<")">>, <<"/">>, <<"]">>}

RECURSIVE StmtSeqTexts(_)
StmtSeqTexts(n) ==
    IF n = 0 THEN {<< >>}
    ELSE LET shorter == StmtSeqTexts(n - 1)
         IN  shorter \cup {IF t = << >> THEN s ELSE Lines(t, s) :
                              t \in shorter, s \in StmtTexts}

\* class r [a-d] newline class s [^b] newline token T /[r][s]a/
\*                                            (test_disjoint_alphabet)
TextAlphabetTest ==
    Lines(ClassText(<<"r">>, <<"[", "a", "-", "d", "]">>),
          Lines(ClassText(<<"s">>, <<"[", "^", "b", "]">>),
                TokenText(<<"T">>, <<"[", "r", "]", "[", "s", "]", "a">>)))

\* atoms of the regex of a text with a class: a char, or a reference to the class
MaxAtoms == 2
AtomTexts == {<<"a">>, <<"b">>, <<"[", "w", "]">>}
\* chars of the class of such a text
MaxClassChars == 2
ClassChars == {"a", "b"}

\* the concatenations of at most n of the given texts
RECURSIVE Concats(_, _)
Concats(texts, n) ==
    IF n = 0 THEN {<< >>}
    ELSE LET shorter == Concats(texts, n - 1)
         IN  shorter \cup {w \o t : w \in shorter, t \in texts}

\* class w [<chars>] or class w [^<chars>], then token A /<atoms>/
ClassAndTokenTexts(n_chars, n_atoms) ==
    {Lines(ClassText(<<"w">>, open \o items \o <<"]">>), TokenText(<<"A">>, body)) :
        open \in {<<"[">>, <<"[", "^">>},
        items \in SeqsUpTo(ClassChars, n_chars),
        body \in Concats(AtomTexts, n_atoms) \ {<< >>}}

\* the test and scenario texts
NamedTexts ==
    {TextIgnoreTest, TextClassTest, TextS3, TextNegate, TextSpaceAfterParen,
     TextSpaceAfterPipe, TextAlphabetTest}

\* the texts parse is run on, for the given bounds
ParseTexts(n_body, n_esc, n_class, n_stmts) ==
    {IgnoreText(body) : body \in SeqsUpTo(BodyChars, n_body)}
    \cup {TokenText(<<"A">>, body) : body \in SeqsUpTo(EscBodyChars, n_esc)}
    \cup {ClassText(<<"w">>, <<"[">> \o items \o close) :
             items \in SeqsUpTo(ClassBodyChars, n_class),
             close \in {<<"]">>, <<"-", "]">>}}
    \cup StmtSeqTexts(n_stmts)
    \cup NamedTexts

\* parse(&mut lexer): the output is kept, the lexer is left as parse left it
ParseText ==
    /\ parse_result = NotParsed
    /\ \E r \in {parse_text(lexer, profile)} :
           /\ parse_result' = r
           /\ lexer' = r.lexer
           /\ status' = IF r.kind = "Panic" THEN "panicked"
                        ELSE IF r.underflow THEN "wrapped" ELSE status
    /\ UNCHANGED <<profile, last, prev, peeks, eoi_returned>>
    /\ UNCHANGED pipeline_vars
    /\ UNCHANGED main_vars

InitParse ==
    /\ LexerInit(ParseTexts(MaxBody, MaxEscBody, MaxClassBody, MaxTextStmts),
                 {"debug", "release"})
    /\ PipelineIdle
    /\ ParserIdle

NextParse == ParseText

\* parse on the texts of a class and a token that may refer to it
InitAlphabet ==
    /\ LexerInit(ClassAndTokenTexts(MaxClassChars, MaxAtoms) \cup NamedTexts,
                 {"debug", "release"})
    /\ PipelineIdle
    /\ ParserIdle

SpecAlphabet == InitAlphabet /\ [][NextParse]_vars

SpecParse == InitParse /\ [][NextParse]_vars

\* texts of a token whose regex refers to a class that is not declared
\* before it.  The class w is declared before the token, after it, or not
\* at all; the regex is a prefix of atoms after which a factor may stand, a
\* reference, and a suffix.
RefDecls == {"none", "before", "after"}

ClassW == ClassText(<<"w">>, <<"[", "a", "]">>)

RefText(decl, body) ==
    CASE decl = "before" -> Lines(ClassW, TokenText(<<"A">>, body))
      [] decl = "after" -> Lines(TokenText(<<"A">>, body), ClassW)
      [] OTHER -> TokenText(<<"A">>, body)

MaxRefPrefix == 2
RefPrefixAtoms(decl) ==
    {<<"a">>, <<"(">>, <<"a", "|">>, <<"a", "*">>}
    \cup (IF decl = "before" THEN {<<"[", "w", "]">>} ELSE {})

\* the names a reference of these texts may hold that no class statement
\* before the token declares
UndeclaredNames(decl) ==
    {<<"x">>, <<"x", "1">>, <<EAcute>>} \cup (IF decl = "before" THEN {} ELSE {<<"w">>})

\* the reference to a name, with or without its closing ']'
RefTo(name, closed) == <<"[">> \o name \o (IF closed THEN <<"]">> ELSE << >>)

RefSuffixes == {<< >>, <<")">>, <<"|", "a">>, <<"*">>}

RefTexts(n_prefix) ==
    {RefText(decl, prefix \o RefTo(name, closed) \o suffix) :
        decl \in RefDecls, prefix \in Concats({<<"a">>, <<"(">>, <<"a", "|">>, <<"a", "*">>,
                                              <<"[", "w", "]">>}, n_prefix),
        name \in {<<"x">>, <<"x", "1">>, <<EAcute>>, <<"w">>}, closed \in BOOLEAN,
        suffix \in RefSuffixes}

InitRefs ==
    /\ LexerInit(RefTexts(MaxRefPrefix) \cup ClassAndTokenTexts(MaxClassChars, MaxAtoms),
                 {"debug", "release"})
    /\ PipelineIdle
    /\ ParserIdle

SpecRefs == InitRefs /\ [][NextParse]_vars

\* texts that are sequences of statements: token statements with the names
\* A, B and A1, ignore statements and a class statement, in any order
MaxOrderStmts == 3
OrderStmts ==
    {TokenText(<<"A">>, <<"a">>), TokenText(<<"B">>, <<"b">>),
     TokenText(<<"A", "1">>, <<"a", "b">>), IgnoreText(<<"a">>), IgnoreText(<<"b">>),
     ClassText(<<"w">>, <<"[", "a", "]">>)}

RECURSIVE OrderTexts(_)
OrderTexts(n) ==
    IF n = 0 THEN {<< >>}
    ELSE LET shorter == OrderTexts(n - 1)
         IN  shorter \cup {IF t = << >> THEN s ELSE Lines(t, s) :
                              t \in shorter, s \in OrderStmts}

InitOrder ==
    /\ LexerInit(OrderTexts(MaxOrderStmts), {"debug", "release"})
    /\ PipelineIdle
    /\ ParserIdle

SpecOrder == InitOrder /\ [][NextParse]_vars

\* texts with the char '#': class w [<chars>] or class w [^<chars>] over a
\* and '#', then token A /<atoms>/ over a, '#' and a reference to the class
MaxHashChars == 2
MaxHashAtoms == 2
HashChars == {"a", "#"}
HashAtoms == {<<"a">>, <<"#">>, <<"[", "w", "]">>}

HashTexts(n_chars, n_atoms) ==
    {Lines(ClassText(<<"w">>, open \o items \o <<"]">>), TokenText(<<"A">>, body)) :
        open \in {<<"[">>, <<"[", "^">>},
        items \in SeqsUpTo(HashChars, n_chars),
        body \in Concats(HashAtoms, n_atoms) \ {<< >>}}

\* class w [!-$] newline token A /[w]/: a range that holds '#'
TextHashRange ==
    Lines(ClassText(<<"w">>, <<"[", "!", "-", "$", "]">>),
          TokenText(<<"A">>, <<"[", "w", "]">>))

InitHash ==
    /\ LexerInit(HashTexts(MaxHashChars, MaxHashAtoms) \cup {TextHashRange},
                 {"debug", "release"})
    /\ PipelineIdle
    /\ ParserIdle

SpecHash == InitHash /\ [][NextParse]_vars

-----------------------------------------------------------------------------
(* main (src/src/main.rs): the command-line program on a text.  The text   *)
(* is parsed, then the pipeline runs on the tree parse gave, then the two  *)
(* output files are created.  The process ends when main returns or when   *)
(* a call aborts.                                                          *)

\* the exit status of a process whose main has returned
ExitSuccess == 0
\* the exit status of a process ended by a panic
ExitPanic == 101

\* the driver file of --driver-language python / javascript
DriverFiles == {"driver.py", "driver.js"}

\* char::to_uppercase on a char of an identifier
to_uppercase_char(c) ==
    IF c \in CodeRange(97, 122) THEN char_from_u32(as_u32(c) - 32) ELSE c

\* str::to_uppercase on an identifier
to_uppercase(token) == [i \in 1..Len(token) |-> to_uppercase_char(token[i])]

\* token_order without the "!" of the ignore statements
user_defined_token_ids(order) == SelectSeq(order, LAMBDA token : token # <<"!">>)

\* get_token_entries: one line for every token id,
\* `    NAME = auto()` for Python and `    NAME: Symbol('NAME'),` for Javascript
get_token_entries(filename, token_ids) ==
    [i \in 1..Len(token_ids) |->
        IF filename = "driver.py"
        THEN <<" ", " ", " ", " ">> \o to_uppercase(token_ids[i])
             \o <<" ", "=", " ", "a", "u", "t", "o", "(", ")", "\n">>
        ELSE <<" ", " ", " ", " ">> \o to_uppercase(token_ids[i])
             \o <<":", " ", "S", "y", "m", "b", "o", "l", "(", "'">>
             \o to_uppercase(token_ids[i]) \o <<"'", ")", ",", "\n">>]

\* get_state_token_mapping: one line for every token id,
\* `    "name": Token.NAME,` for Python and `    "name": Symbol('NAME'),`
\* for Javascript
get_state_token_mapping(filename, token_ids) ==
    [i \in 1..Len(token_ids) |->
        <<" ", " ", " ", " ", "\"">> \o token_ids[i] \o <<"\"", ":", " ">>
        \o (IF filename = "driver.py" THEN <<"T", "o", "k", "e", "n", ".">>
            ELSE <<"S", "y", "m", "b", "o", "l", "(", "'">>)
        \o to_uppercase(token_ids[i])
        \o (IF filename = "driver.py" THEN <<",", "\n">> ELSE <<"'", ")", ",", "\n">>)]

\* generate_driver_content: the two texts put in the place of
\* '__TOKEN_ENTRIES__' and '__STATE_TOKEN_MAPPING__' of the template
generate_driver_content(filename, token_ids) ==
    [token_entries |-> get_token_entries(filename, token_ids),
     state_token_mapping |-> get_state_token_mapping(filename, token_ids),
     written |-> TRUE]

\* token A /(aa)?/, a text on which the DFA construction aborts
TextOptionalPair == TokenText(<<"A">>, <<"(", "a", "a", ")", "?">>)

\* the texts main is run on: one ignore statement, and sequences of
\* statements and of tokens that start no statement
MaxMainBody == 2
MaxMainStmts == 2
MainTexts(n_body, n_stmts) ==
    {IgnoreText(body) : body \in SeqsUpTo(BodyChars, n_body)}
    \cup StmtSeqTexts(n_stmts)
    \cup {TextOptionalPair, TextSpaceAfterPipe}

\* `let parse_output = match parse(&mut lexer)` and `if ast.size() == 0`
MainParse ==
    /\ pc = "parse"
    /\ parse_result = NotParsed
    /\ \E r \in {parse_text(lexer, profile)} :
           /\ parse_result' = r
           /\ lexer' = r.lexer
           /\ status' = IF r.kind = "Panic" THEN "panicked"
                        ELSE IF r.underflow THEN "wrapped" ELSE status
           /\ tree' = IF r.kind = "Ok" THEN r.tree ELSE tree
           /\ end_nodes' = IF r.kind = "Ok" THEN r.end_nodes ELSE end_nodes
           /\ token_order' = IF r.kind = "Ok" THEN r.token_order ELSE token_order
           /\ pc' = CASE r.kind = "Panic" -> "panicked"
                      [] r.kind = "Err" -> "parse_error"
                      [] r.kind = "Ok" /\ size(r.tree) = 0 -> "no_token_definitions"
                      [] OTHER -> "get_meta"
    /\ UNCHANGED <<stmts, meta, follow_pos, state_table, queue, accepting_states,
                   state_ids, serialized, outputs>>
    /\ UNCHANGED <<profile, last, prev, peeks, eoi_returned>>
    /\ UNCHANGED main_vars

\* create_dfa_file: File::create(states.json), then serialize_dfa
CreateDfaFile ==
    /\ pc = "serialize_dfa"
    /\ files' = files \cup {"states.json"}
    /\ \E key_order \in Orders(DOMAIN state_table) :
        /\ state_ids' = state_ids_of(key_order)
        /\ serialized' = serialize_dfa(state_table, get(meta, root_of(tree)).first_pos,
                                       end_nodes, token_order, key_order)
    /\ pc' = "create_driver_file"
    /\ UNCHANGED <<stmts, tree, end_nodes, token_order, meta, follow_pos, state_table,
                   queue, accepting_states, outputs, driver_file_contents, exit_code>>
    /\ UNCHANGED lexer_vars
    /\ UNCHANGED parser_vars

\* create_driver_file: File::create(driver.py or driver.js), and the driver
\* text of the generator of that language written to it
CreateDriverFile ==
    /\ pc = "create_driver_file"
    /\ \E filename \in DriverFiles :
           /\ files' = files \cup {filename}
           /\ driver_file_contents' =
                  generate_driver_content(filename, user_defined_token_ids(token_order))
    /\ pc' = "returned"
    /\ UNCHANGED <<stmts, tree, end_nodes, token_order, meta, follow_pos, state_table,
                   queue, accepting_states, state_ids, serialized, outputs, exit_code>>
    /\ UNCHANGED lexer_vars
    /\ UNCHANGED parser_vars

\* the process ends: main has returned (`return;` after a parse error and
\* after "No definitions found.", or the end of main), or a call has aborted
MainExit ==
    /\ pc \in {"parse_error", "no_token_definitions", "returned", "panicked"}
    /\ exit_code = Running
    /\ exit_code' = IF pc = "panicked" THEN ExitPanic ELSE ExitSuccess
    /\ UNCHANGED <<files, driver_file_contents>>
    /\ UNCHANGED pipeline_vars
    /\ UNCHANGED lexer_vars
    /\ UNCHANGED parser_vars

InitMain ==
    /\ LexerInit(MainTexts(MaxMainBody, MaxMainStmts), {"debug", "release"})
    /\ PipelineIdle
    /\ ParserIdle

NextMain ==
    \/ MainParse
    \/ GetMeta
    \/ GetFollowPos
    \/ GetDfaStart
    \/ GetDfaLoop
    \/ GetDfaReturn
    \/ CreateDfaFile
    \/ CreateDriverFile
    \/ MainExit

SpecMain == InitMain /\ [][NextMain]_vars

\* main on the texts of two token statements, the names over a few chars
MaxNameLen == 2
NameChars == {"a", "A", "_"}
DriverTexts(n) ==
    {Lines(TokenText(first, <<"a">>), TokenText(second, <<"b">>)) :
        first \in SeqsUpTo(NameChars, n) \ {<< >>},
        second \in SeqsUpTo(NameChars, n) \ {<< >>}}

InitDriver ==
    /\ LexerInit(DriverTexts(MaxNameLen), {"debug", "release"})
    /\ PipelineIdle
    /\ ParserIdle

SpecDriver == InitDriver /\ [][NextMain]_vars

-----------------------------------------------------------------------------
(* Reference semantics used by the claims: the language of a regex node    *)
(* and the run of the DFA on a string.                                     *)

RECURSIVE StringsUpTo(_)
StringsUpTo(n) ==
    IF n = 0 THEN {<< >>}
    ELSE StringsUpTo(n - 1)
         \cup {Append(w, c) : w \in {v \in StringsUpTo(n - 1) : Len(v) = n - 1},
                              c \in RegexChars}

RECURSIVE Matches(_, _, _)
\* w is a concatenation of non-empty strings matched by node n
RECURSIVE MatchesStar(_, _, _)

Matches(ast, n, w) ==
    LET node == get(ast, n) IN
    CASE node.kind = "Character" -> w = <<node.ch>>
      [] node.kind = "Union" -> Matches(ast, node.left, w) \/ Matches(ast, node.right, w)
      [] node.kind = "Concat" ->
            \E i \in 0..Len(w) : /\ Matches(ast, node.left, SubSeq(w, 1, i))
                                 /\ Matches(ast, node.right, SubSeq(w, i + 1, Len(w)))
      [] node.kind = "Star" -> MatchesStar(ast, node.child, w)
      [] node.kind = "Plus" ->
            \E i \in 0..Len(w) : /\ Matches(ast, node.child, SubSeq(w, 1, i))
                                 /\ MatchesStar(ast, node.child, SubSeq(w, i + 1, Len(w)))
      [] node.kind = "Question" -> w = << >> \/ Matches(ast, node.child, w)

MatchesStar(ast, n, w) ==
    \/ w = << >>
    \/ \E i \in 1..Len(w) : /\ Matches(ast, n, SubSeq(w, 1, i))
                            /\ MatchesStar(ast, n, SubSeq(w, i + 1, Len(w)))

\* the state the DFA is in after reading w from state s; {} when a
\* transition is missing
RECURSIVE RunFrom(_, _, _)
RunFrom(table, s, w) ==
    IF w = << >> \/ s = {} THEN s
    ELSE LET next == {t \in table[s] : t[1] = Head(w)}
         IN  RunFrom(table, IF next = {} THEN {} ELSE (CHOOSE t \in next : TRUE)[2],
                     Tail(w))

EntryState == get(meta, root_of(tree)).first_pos

\* positions in the parsed tree of statement i's regex root and '#' leaf
RECURSIVE StmtOffset(_, _)
StmtOffset(ss, i) ==
    IF i = 1 THEN 0
    ELSE StmtOffset(ss, i - 1) + Len(ss[i - 1].regex) + 2 + (IF i > 2 THEN 1 ELSE 0)

StmtRegexRoot(ss, i) == StmtOffset(ss, i) + Len(ss[i].regex) - 1

StmtEndNode(ss, i) == StmtOffset(ss, i) + Len(ss[i].regex)

-----------------------------------------------------------------------------
\* C1: the DFA built by get_meta, get_follow_pos and get_dfa ends, on every
\* string within the bound, in a state containing a statement's '#' end-marker
\* leaf exactly when the string matches that statement's regex, and the
\* construction never aborts.
C1_DfaRecognizesTokens ==
    /\ pc # "panicked"
    /\ pc = "serialize_dfa" =>
          \A i \in DOMAIN stmts : \A w \in StringsUpTo(MaxStr) :
              (StmtEndNode(stmts, i) \in RunFrom(state_table, EntryState, w))
                  <=> Matches(tree, StmtRegexRoot(stmts, i), w)

-----------------------------------------------------------------------------
\* C2: two runs of the generator on the same input text write the same JSON
\* text, whatever order the hash containers yield their entries in.
C2_RunsByteIdentical ==
    \A i, j \in DOMAIN outputs : outputs[i] = outputs[j]

\* C3: for `token A /a/` newline `token B /b/` the serialized DFA has the
\* three states 1, 2, 3, entry 1, 1 -a-> 2, 1 -b-> 3, no transitions out of 2
\* and 3, and accepting = {2: [A], 3: [B]}.
C3_ScenarioS1Ids ==
    (stmts = InputS1 /\ pc = "to_string_pretty") =>
        /\ DOMAIN serialized.states = {1, 2, 3}
        /\ serialized.entry = 1
        /\ serialized.states[1] = {<<"a", 2>>, <<"b", 3>>}
        /\ serialized.states[2] = {}
        /\ serialized.states[3] = {}
        /\ DOMAIN serialized.accepting = {2, 3}
        /\ serialized.accepting[2] = <<"A">>
        /\ serialized.accepting[3] = <<"B">>

\* the text the simulator is run on in scenario S2
TextS2 == <<"a", "a", "b", "a", "b", "b", "a", "b", "b">>

\* the 0-based positions p of text w such that the DFA, having consumed
\* w[0..p], is in a state containing the leaf end_node
AcceptingPositions(table, entry, end_node, w) ==
    {p \in 0..(Len(w) - 1) : end_node \in RunFrom(table, entry, SubSeq(w, 1, p + 1))}

\* the states of the table the entry state reaches on some string
ReachableStates(table, entry) ==
    {RunFrom(table, entry, w) : w \in StringsUpTo(MaxStr)} \ {{}}

\* C4 (as the code has it): for `token T /(a|b)*abb/` the DFA has exactly
\* four states, all reachable, exactly one of them contains the token's '#'
\* leaf and it is the one state the builder marks accepting, and on
\* `aababbabb` the DFA is in that state exactly twice: after the characters at
\* 0-based positions 5 and 8 (six and nine characters consumed).
C4_ScenarioS2 ==
    (stmts = InputS2 /\ pc = "serialize_dfa") =>
        /\ Cardinality(DOMAIN state_table) = 4
        /\ ReachableStates(state_table, EntryState) = DOMAIN state_table
        /\ Cardinality({s \in DOMAIN state_table : StmtEndNode(stmts, 1) \in s}) = 1
        /\ accepting_states = {s \in DOMAIN state_table : StmtEndNode(stmts, 1) \in s}
        /\ AcceptingPositions(state_table, EntryState, StmtEndNode(stmts, 1), TextS2)
               = {5, 8}

\* the DFA of scenario S2 has been built
C4_Witness ==
    /\ stmts = InputS2
    /\ pc = "serialize_dfa"
    /\ Cardinality(DOMAIN state_table) = 4

\* C4 as stated: the DFA is in the accepting state at positions 4 and 8.
C4_AsStated ==
    (stmts = InputS2 /\ pc = "serialize_dfa") =>
        /\ Cardinality(DOMAIN state_table) = 4
        /\ Cardinality({s \in DOMAIN state_table : StmtEndNode(stmts, 1) \in s}) = 1
        /\ AcceptingPositions(state_table, EntryState, StmtEndNode(stmts, 1), TextS2)
               = {4, 8}

\* the states of the table that contain a '#' leaf
HashStates == {s \in DOMAIN state_table : \E n \in s : get(tree, n).ch = "#"}

\* C5: in the serialized DFA the id of a state is a key of `accepting` exactly
\* when the state contains a '#' leaf.
C5_AcceptingIffHashLeaf ==
    pc = "to_string_pretty" =>
        \A s \in DOMAIN state_table :
            (state_ids[s] \in DOMAIN serialized.accepting) <=> (s \in HashStates)

\* the token ids the Accepting map gives the end-marker leaves of state s
EndTokens(s) == {end_nodes[n] : n \in s \cap DOMAIN end_nodes}

\* C6: the label list of an accepting state lists exactly the token ids of
\* the end-marker leaves in the state, each once, in token-order position
\* (declaration order, '!' last).
C6_LabelsExactOnceOrdered ==
    pc = "to_string_pretty" =>
        \A s \in DOMAIN state_table :
            state_ids[s] \in DOMAIN serialized.accepting =>
                LET labels == serialized.accepting[state_ids[s]] IN
                /\ {labels[i] : i \in DOMAIN labels} = EndTokens(s)
                /\ \A i, j \in DOMAIN labels : labels[i] = labels[j] => i = j
                /\ \A i \in DOMAIN labels : labels[i] = "!" => i = Len(labels)

-----------------------------------------------------------------------------
(* Claims about the specification lexer.                                   *)

\* the last two calls that returned were made in the same mode
SameMode == prev.mode = last.mode

\* kind, lexeme, line and col of the two entries are equal
SameEntry(e1, e2) ==
    /\ e1.token = e2.token
    /\ e1.lexeme = e2.lexeme
    /\ e1.line = e2.line
    /\ e1.col = e2.col

\* C7: a peek_token returns the entry that the get_token called right after
\* it in the same mode returns, and so does a second peek_token called right
\* after it.
C7_PeekNonConsuming ==
    (prev.op = "peek" /\ last.op \in {"get", "peek"} /\ SameMode) =>
        SameEntry(prev.entry, last.entry)

\* the 0-based line of position p of the text: the newlines before p
LineOf(input, p) == Cardinality({i \in 1..p : input[i] = "\n"})

\* the 0-based column of position p of the text: the chars between the last
\* newline before p and p
ColOf(input, p) ==
    LET newlines == {i \in 1..p : input[i] = "\n"}
    IN  IF newlines = {} THEN p
        ELSE p - (CHOOSE i \in newlines : \A j \in newlines : j <= i)

IsAscii(input) == \A i \in DOMAIN input : Utf8Len(input[i]) = 1

\* C8: on an ASCII text, every token other than EOI that a call returns
\* carries the 0-based line and column of the first char of its text.
C8_TokenCoordinates ==
    (last.op \in {"get", "peek"} /\ last.entry.token # "EOI" /\ IsAscii(lexer.input)) =>
        /\ last.entry.line = LineOf(lexer.input, last.start)
        /\ last.entry.col = ColOf(lexer.input, last.start)

\* C9: a get_token that returns a token other than EOI leaves pos greater
\* than it found it; once a get_token has returned EOI, every call returns
\* EOI with the sentinel coordinates; and until a get_token has returned EOI
\* another get_token can be made, so that the calls reach EOI.
C9_ProgressToEOI ==
    /\ (last.op = "get" /\ last.entry.token # "EOI") => lexer.pos > last.pos_before
    /\ (last.op \in {"get", "peek"} /\ last.after_eoi) =>
            last.entry = TokenEntry("EOI", << >>, EOI_LINE, EOI_COL)
    /\ (last.op = "get" /\ last.entry.token = "EOI") =>
            last.entry = TokenEntry("EOI", << >>, EOI_LINE, EOI_COL)
    /\ eoi_returned \/ CanCall

\* C10: no call aborts and no subtraction of the lexer goes below zero.
C10_LexerNeverFails == status = "ok"

-----------------------------------------------------------------------------
(* Claims about parse on a text.                                           *)

\* the text is `ignore /<body>/` with a body that holds no '/' and no backslash
IsIgnoreText(input) ==
    /\ Len(input) >= 9
    /\ SubSeq(input, 1, 8) = KwIgnore \o <<" ", "/">>
    /\ input[Len(input)] = "/"
    /\ \A i \in 9..(Len(input) - 1) : input[i] \notin {"/", "\\"}

IgnoreBody(input) == SubSeq(input, 9, Len(input) - 1)

\* the spaces of a text
Spaces(w) == Cardinality({i \in 1..Len(w) : w[i] = " "})

\* the Character(' ') leaves of a tree
SpaceLeaves(ast) ==
    Cardinality({i \in 1..Len(ast) : ast[i].kind = "Character" /\ ast[i].ch = " "})

\* C11: when an ignore statement parses successfully, every space between its
\* two slashes is a Character(' ') leaf of the tree of its own: the tree has as
\* many such leaves as the body has spaces.
C11_SpacesAreLeaves ==
    (parse_result.kind = "Ok" /\ IsIgnoreText(lexer.input)) =>
        SpaceLeaves(parse_result.tree) = Spaces(IgnoreBody(lexer.input))

-----------------------------------------------------------------------------
(* Claims about escapes.                                                   *)

\* the char an escaped x stands for
EscapeOf(x) ==
    CASE x = "n" -> "\n"
      [] x = "t" -> "\t"
      [] x = "f" -> "\f"
      [] x = "v" -> Backspace
      [] x = "r" -> "\r"
      [] OTHER -> x

\* the last call returned the token that begins at a backslash with a char
\* after it
EscapeReturned ==
    /\ last.op \in {"get", "peek"}
    /\ last.start + 2 <= Len(lexer.input)
    /\ lexer.input[last.start + 1] = "\\"

\* C12: in both modes the token for a backslash and the char x after it is one
\* Characters token whose lexeme is the single char x stands for, at the
\* column of the backslash.
C12_EscapeToken ==
    EscapeReturned =>
        /\ last.entry.token = "Characters"
        /\ last.entry.lexeme = <<EscapeOf(lexer.input[last.start + 2])>>
        /\ last.entry.col = ColOf(lexer.input, last.start)

-----------------------------------------------------------------------------
(* Claims about class statements.                                          *)

\* the kinds of the tokens that get_token gives for a lexer, up to EOI or to
\* the call that aborts
RECURSIVE TokenKinds(_, _)
TokenKinds(lx, build) ==
    LET r == get_token(lx, build)
    IN  IF r.panicked THEN <<"Panic">>
        ELSE IF r.entry.token = "EOI" THEN <<"EOI">>
        ELSE <<r.entry.token>> \o TokenKinds(r.lexer, build)

\* the text is one class statement whose last token is DashBracketClose
EndsWithDashBracketClose(input, build) ==
    LET kinds == TokenKinds(from_string(input), build)
    IN  /\ Len(kinds) >= 5
        /\ kinds[1] = "Class"
        /\ kinds[3] \in {"BracketOpen", "BracketOpenNegate"}
        /\ kinds[Len(kinds) - 1] = "DashBracketClose"
        /\ kinds[Len(kinds)] = "EOI"
        /\ \A i \in 4..(Len(kinds) - 2) : kinds[i] \in {"Characters", "CharacterRange"}

\* the text with `]` in place of the `-]` it ends with
ClosedByBracket(input) == SubSeq(input, 1, Len(input) - 2) \o <<"]">>

\* C13: a class statement whose body ends with the token DashBracketClose is
\* accepted whenever the same statement closed by `]` is: parse returns Ok.
C13_DashBracketCloseAccepted ==
    (/\ parse_result.kind # "none"
     /\ EndsWithDashBracketClose(lexer.input, profile)
     /\ parse_text(from_string(ClosedByBracket(lexer.input)), profile).kind = "Ok") =>
        parse_result.kind = "Ok"

\* the text is one class statement `class <name> [<body>]` with an Include
\* set, written without escapes and on one line
IsClassText(input) ==
    /\ Len(input) >= 10
    /\ SubSeq(input, 1, 6) = KwClass \o <<" ">>
    /\ input[Len(input)] = "]"
    /\ Cardinality({i \in 1..Len(input) : input[i] = "["}) = 1
    /\ Cardinality({i \in 1..Len(input) : input[i] = "]"}) = 1
    /\ \A i \in 1..Len(input) : input[i] \notin {"\\", "^", "\n", "/"}
    /\ \E k \in 9..Len(input) :
           input[k] = "[" /\ input[k - 1] = " " /\ is_identifier(SubSeq(input, 7, k - 2))

BracketAt(input) == CHOOSE k \in 1..Len(input) : input[k] = "["

ClassNameOf(input) == SubSeq(input, 7, BracketAt(input) - 2)

ClassBodyOf(input) == SubSeq(input, BracketAt(input) + 1, Len(input) - 1)

\* The items of a class body from position i on, read from the text: blanks
\* separate items, X-Y is a range, any other char is an item of its own.
\* Gives the chars of the items, whether a range with Y < X comes first, and
\* whether a '-' stands where an item or the end of a range is due.
RECURSIVE ClassItems(_, _)
ClassItems(w, i) ==
    IF i > Len(w) THEN [chars |-> {}, inverted |-> FALSE, malformed |-> FALSE]
    ELSE IF w[i] \in {" ", "\r"} THEN ClassItems(w, i + 1)
    ELSE IF w[i] = "-" THEN [chars |-> {}, inverted |-> FALSE, malformed |-> TRUE]
    ELSE IF i + 1 <= Len(w) /\ w[i + 1] = "-"
    THEN IF i + 2 > Len(w) \/ w[i + 2] = "-"
         THEN [chars |-> {}, inverted |-> FALSE, malformed |-> TRUE]
         ELSE IF as_u32(w[i]) > as_u32(w[i + 2])
         THEN [chars |-> {}, inverted |-> TRUE, malformed |-> FALSE]
         ELSE [ClassItems(w, i + 3) EXCEPT
                  !.chars = @ \cup CodeRange(as_u32(w[i]), as_u32(w[i + 2]))]
    ELSE [ClassItems(w, i + 1) EXCEPT !.chars = @ \cup {w[i]}]

\* C14: when a class statement parses successfully its set holds exactly the
\* chars of its single-char items and the code points X to Y of its ranges X-Y;
\* when a range with Y < X is the first thing wrong with the body, parse
\* returns the error 'Invalid character range'.
C14_ClassSetExact ==
    (parse_result.kind # "none" /\ IsClassText(lexer.input)) =>
        LET items == ClassItems(ClassBodyOf(lexer.input), 1)
        IN  /\ parse_result.kind = "Ok" =>
                 /\ ~items.inverted
                 /\ parse_result.class_lookup_table[ClassNameOf(lexer.input)].chars
                        = items.chars
            /\ items.inverted =>
                 /\ parse_result.kind = "Err"
                 /\ parse_result.message = "Invalid character range"

-----------------------------------------------------------------------------
(* Claims about the alphabet.                                              *)

\* the Id leaves of a tree
IdLeaves(ast) == {p \in 0..(size(ast) - 1) : get(ast, p).kind = "Id"}

\* C15: for the text of scenario S3 parse succeeds, the alphabet is exactly
\* space, TAB and LF, and each of the two [ws] leaves has all three as its
\* input symbols.
C15_ScenarioS3Alphabet ==
    (parse_result.kind # "none" /\ lexer.input = TextS3) =>
        /\ parse_result.kind = "Ok"
        /\ DOMAIN parse_result.alphabet = {" ", "\t", "\n"}
        /\ Cardinality(IdLeaves(parse_result.tree)) = 2
        /\ \A p \in IdLeaves(parse_result.tree) :
               parse_result.node_input_symbols[p] = {" ", "\t", "\n"}

\* C16: after a successful parse every char of every class set and the char
\* of every Character leaf is an ASCII char.
C16_AsciiOnly ==
    parse_result.kind = "Ok" =>
        /\ \A name \in DOMAIN parse_result.class_lookup_table :
               parse_result.class_lookup_table[name].chars \subseteq ascii_chars
        /\ \A p \in 0..(size(parse_result.tree) - 1) :
               get(parse_result.tree, p).kind = "Character" =>
                   is_ascii(get(parse_result.tree, p).ch)

\* the chars of the model
AllChars == {CharTable[i] : i \in 1..Len(CharTable)}

\* the terminal nodes of a parse
TerminalNodes(out) == {out.terminal_nodes[i] : i \in 1..Len(out.terminal_nodes)}

\* leaf p of a parse selects char c: it is Character(c), or it refers to an
\* Include class that holds c, or to a Negate class that does not hold the
\* ASCII char c
Selects(out, p, c) ==
    LET node == get(out.tree, p)
    IN  IF node.kind = "Character" THEN node.ch = c
        ELSE LET class_set == out.class_lookup_table[node.id]
             IN  IF class_set.operator = "Include" THEN c \in class_set.chars
                 ELSE c \in ascii_chars /\ c \notin class_set.chars

\* C17: the alphabet of a successful parse maps each char to exactly the
\* terminal nodes that select it, and the input symbols of a node that is not
\* an end node are exactly the chars whose alphabet entry holds it.
C17_AlphabetExact ==
    parse_result.kind = "Ok" =>
        LET alphabet == parse_result.alphabet
            symbols  == parse_result.node_input_symbols
            nodes    == 0..(size(parse_result.tree) - 1)
        IN  /\ DOMAIN alphabet \subseteq AllChars
            /\ \A c \in DOMAIN alphabet :
                   alphabet[c] # {} /\ alphabet[c] \subseteq TerminalNodes(parse_result)
            /\ \A c \in AllChars : \A p \in TerminalNodes(parse_result) :
                   (c \in DOMAIN alphabet /\ p \in alphabet[c])
                       <=> Selects(parse_result, p, c)
            /\ DOMAIN symbols \subseteq nodes
            /\ \A c \in AllChars : \A p \in nodes \ DOMAIN parse_result.end_nodes :
                   (p \in DOMAIN symbols /\ c \in symbols[p])
                       <=> (c \in DOMAIN alphabet /\ p \in alphabet[c])

\* the text of test_disjoint_alphabet has been parsed: 'a' is selected by the
\* Include class, the Negate class and the Character leaf, 'b' by the Include
\* class alone, and a char outside the Include class by the Negate class alone
C17_Witness ==
    /\ lexer.input = TextAlphabetTest
    /\ parse_result.kind = "Ok"
    /\ parse_result.terminal_nodes = <<0, 1, 2>>
    /\ parse_result.class_lookup_table[<<"s">>].operator = "Negate"
    /\ parse_result.alphabet["a"] = {0, 1, 2}
    /\ parse_result.alphabet["b"] = {0}
    /\ parse_result.alphabet["z"] = {1}
    /\ parse_result.node_input_symbols[2] = {"a"}
    /\ parse_result.node_input_symbols[0] = {"a", "b", "c", "d"}

-----------------------------------------------------------------------------
(* Claims about the statements of a text.                                  *)

\* C18: parse returns Ok only when it has taken the whole text: the token the
\* lexer gives next is EOI.
C18_WholeInputParsed ==
    parse_result.kind = "Ok" =>
        get_token(parse_result.lexer, profile).entry.token = "EOI"

\* the text is `token A /` followed by the char U+00E9 and any rest
NonAsciiAtomFirst(input) ==
    /\ Len(input) >= Len(TokenText(<<"A">>, <<EAcute>>)) - 1
    /\ SubSeq(input, 1, Len(TokenText(<<"A">>, << >>)) - 1) =
           SubSeq(TokenText(<<"A">>, << >>), 1, Len(TokenText(<<"A">>, << >>)) - 1)
    /\ input[Len(TokenText(<<"A">>, << >>))] = EAcute

\* C19: when the first atom of a regex is a char outside ASCII, parse returns
\* the error 'Unsupported character' with the token of that char.
C19_NonAsciiAtomIsError ==
    (parse_result.kind # "none" /\ NonAsciiAtomFirst(lexer.input)) =>
        /\ parse_result.kind = "Err"
        /\ parse_result.message = "Unsupported character"
        /\ parse_result.token.lexeme = <<EAcute>>

\* C20: the token order of a successful parse holds no name twice.
C20_NoDuplicateTokenNames ==
    parse_result.kind = "Ok" =>
        \A i, j \in 1..Len(parse_result.token_order) :
            i # j => parse_result.token_order[i] # parse_result.token_order[j]

-----------------------------------------------------------------------------
(* The command-line program.                                               *)

\* parse gave an error, or gave a tree without a node
ParseFailedOrEmpty ==
    \/ parse_result.kind = "Err"
    \/ parse_result.kind = "Ok" /\ size(parse_result.tree) = 0

\* C21: when parsing fails or the input has no token definitions the
\* process ends with exit code 1 and has created neither states.json nor
\* the driver file; exit code 0 is produced only after both output files
\* were written
C21_ExitCodes ==
    /\ (exit_code # Running /\ ParseFailedOrEmpty) => (exit_code = 1 /\ files = {})
    /\ exit_code = ExitSuccess => \E driver \in DriverFiles : files = {"states.json", driver}

-----------------------------------------------------------------------------
(* References to classes.                                                  *)

\* the texts of a token whose regex holds, after a prefix of atoms that
\* stand well, a reference to a class no earlier statement declares
UndeclaredRefTexts ==
    UNION {
      {RefText(decl, prefix \o RefTo(name, closed) \o suffix) :
          prefix \in Concats(RefPrefixAtoms(decl), MaxRefPrefix),
          name \in UndeclaredNames(decl), closed \in BOOLEAN, suffix \in RefSuffixes}
      : decl \in RefDecls}

RefersToUndeclared(text) == text \in UndeclaredRefTexts

\* the class-reference leaves of a tree
RefLeaves(ast) == {i \in 1..Len(ast) : ast[i].kind = "Id"}

\* C22: a regex that refers to a class not declared earlier in the input
\* makes parse return an 'Undefined class identifier' error, also when the
\* closing ']' is missing; after a successful parse every class-reference
\* leaf names a key of the class lookup table
C22_UndefinedClass ==
    parse_result # NotParsed =>
        /\ RefersToUndeclared(lexer.input) =>
               /\ parse_result.kind = "Err"
               /\ parse_result.message = "Undefined class identifier"
        /\ parse_result.kind = "Ok" =>
               \A i \in RefLeaves(parse_result.tree) :
                   parse_result.tree[i].id \in DOMAIN parse_result.class_lookup_table

\* parse has returned the error for a reference, without its closing ']',
\* to a class that is declared only after the token
C22_Witness ==
    /\ lexer.input = RefText("after", <<"a", "[", "w">>)
    /\ parse_result.kind = "Err"
    /\ parse_result.message = "Undefined class identifier"

-----------------------------------------------------------------------------
(* Claims about the output of parse.                                       *)

\* the first line of a text, and the text after it
FirstLine(text) ==
    IF \E k \in 1..Len(text) : text[k] = "\n"
    THEN SubSeq(text, 1, (CHOOSE k \in 1..Len(text) :
                             /\ text[k] = "\n"
                             /\ \A j \in 1..(k - 1) : text[j] # "\n") - 1)
    ELSE text
AfterFirstLine(text) == SubSeq(text, Len(FirstLine(text)) + 2, Len(text))

\* the line is a token statement: the keyword token, a space, the name
IsTokenLine(line) ==
    /\ Len(line) > Len(KwToken) + 1
    /\ SubSeq(line, 1, Len(KwToken) + 1) = KwToken \o <<" ">>
TokenNameOf(line) ==
    LET rest == SubSeq(line, Len(KwToken) + 2, Len(line))
    IN  SubSeq(rest, 1, (CHOOSE k \in 1..Len(rest) :
                             /\ rest[k] = " "
                             /\ \A j \in 1..(k - 1) : rest[j] # " ") - 1)
IsIgnoreLine(line) ==
    /\ Len(line) > Len(KwIgnore)
    /\ SubSeq(line, 1, Len(KwIgnore) + 1) = KwIgnore \o <<" ">>

\* the names of the token statements of a text, one statement a line, in
\* the order of the lines
RECURSIVE DeclaredTokenNames(_)
DeclaredTokenNames(text) ==
    IF text = << >> THEN << >>
    ELSE (IF IsTokenLine(FirstLine(text)) THEN <<TokenNameOf(FirstLine(text))>>
          ELSE << >>)
         \o DeclaredTokenNames(AfterFirstLine(text))

RECURSIVE IgnoreLines(_)
IgnoreLines(text) ==
    IF text = << >> THEN 0
    ELSE (IF IsIgnoreLine(FirstLine(text)) THEN 1 ELSE 0)
         + IgnoreLines(AfterFirstLine(text))

-----------------------------------------------------------------------------
(* Claims about the followpos table.                                       *)

\* the nodes of the tree, and its leaves
Nodes(ast) == 0..(size(ast) - 1)
Leaves(ast) == {n \in Nodes(ast) : get(ast, n).kind = "Character"}

\* the entry of p in the table, empty when p is no key
FollowOf(p) == IF p \in DOMAIN follow_pos THEN follow_pos[p] ELSE {}

\* what the two rules put in followpos[p]: firstpos(R) for every Concat(L, R)
\* with p in lastpos(L), firstpos(n) for every Star or Plus n with p in
\* lastpos(n)
RequiredFollow(p) ==
    UNION ({get(meta, get(tree, n).right).first_pos :
               n \in {c \in Nodes(tree) : /\ get(tree, c).kind = "Concat"
                                          /\ p \in get(meta, get(tree, c).left).last_pos}}
           \cup {get(meta, n).first_pos :
                    n \in {c \in Nodes(tree) : /\ get(tree, c).kind \in {"Star", "Plus"}
                                               /\ p \in get(meta, c).last_pos}})

\* C24: once get_follow_pos has returned, followpos[p] is, for every position
\* p, what the Concat rule and the Star/Plus rule require over all the nodes of
\* the tree, under whatever ancestors they stand, and nothing more.
C24_FollowPosRules ==
    follow_pos # NoTable =>
        \A p \in Nodes(tree) \cup DOMAIN follow_pos : FollowOf(p) = RequiredFollow(p)

\* the end node get_follow_pos starts from: the right child of the root
OuterEndNode == get(tree, root_of(tree)).right

\* the keys of the table are the leaves of the tree, and the entry of the
\* outer '#' leaf is empty
KeysAreLeaves ==
    /\ DOMAIN follow_pos = Leaves(tree)
    /\ follow_pos[OuterEndNode] = {}

\* get_dfa finds an entry for every leaf of every state of its table, and
\* has not aborted
LookupSucceeds ==
    /\ pc = "get_dfa_loop" =>
           \A state \in DOMAIN state_table : state \subseteq DOMAIN follow_pos
    /\ pc = "panicked" => follow_pos = NoTable

\* C25: once get_follow_pos has returned, the table has a key for every leaf
\* of the tree and for nothing else, the entry of the outer '#' leaf is
\* empty, and so the lookup of get_dfa succeeds for every leaf of every state.
C25_FollowPosKeys ==
    follow_pos # NoTable => (KeysAreLeaves /\ LookupSucceeds)

-----------------------------------------------------------------------------
(* Claims about the metadata arena.                                        *)

\* the entry of node n is what the reference table gives for its kind, from
\* the entries of its children
MetaTableRow(n) ==
    LET node == get(tree, n)
        this == get(meta, n)
    IN  CASE node.kind = "Character" ->
               /\ ~this.nullable
               /\ this.first_pos = {n}
               /\ this.last_pos = {n}
          [] node.kind = "Union" ->
               /\ this.nullable = (get(meta, node.left).nullable
                                   \/ get(meta, node.right).nullable)
               /\ this.first_pos = get(meta, node.left).first_pos
                                   \cup get(meta, node.right).first_pos
               /\ this.last_pos = get(meta, node.left).last_pos
                                  \cup get(meta, node.right).last_pos
          [] node.kind = "Concat" ->
               /\ this.nullable = (get(meta, node.left).nullable
                                   /\ get(meta, node.right).nullable)
               /\ this.first_pos =
                      IF get(meta, node.left).nullable
                      THEN get(meta, node.left).first_pos
                           \cup get(meta, node.right).first_pos
                      ELSE get(meta, node.left).first_pos
               /\ this.last_pos =
                      IF get(meta, node.right).nullable
                      THEN get(meta, node.right).last_pos
                           \cup get(meta, node.left).last_pos
                      ELSE get(meta, node.right).last_pos
          [] OTHER ->
               /\ this.nullable = (node.kind # "Plus")
               /\ this.first_pos = get(meta, node.child).first_pos
               /\ this.last_pos = get(meta, node.child).last_pos

\* the nodes reachable from node n of the tree
RECURSIVE Reachable(_, _)
Reachable(ast, n) ==
    LET node == get(ast, n)
    IN  {n} \cup (IF node.kind \in BinaryKinds
                  THEN Reachable(ast, node.left) \cup Reachable(ast, node.right)
                  ELSE IF node.kind \in UnaryKinds THEN Reachable(ast, node.child)
                  ELSE {})

\* C26: once get_meta has returned, the metadata arena has the size of the
\* tree, and the entry of every node reachable from the root is the row of
\* the reference table for its kind: a leaf is not nullable and is its own
\* firstpos and lastpos; Union and Concat follow the recurrences; Star and
\* Question are nullable, Plus is not, and all three copy the child's sets.
C26_MetaTable ==
    meta # NoMeta =>
        /\ size(meta) = size(tree)
        /\ \A n \in Reachable(tree, root_of(tree)) : MetaTableRow(n)

\* a Plus node over a nullable child and a Concat with a nullable left
\* operand have their entries
C26_Witness ==
    /\ meta # NoMeta
    /\ \E n \in Reachable(tree, root_of(tree)) :
           /\ get(tree, n).kind = "Plus"
           /\ get(meta, get(tree, n).child).nullable
           /\ ~get(meta, n).nullable
    /\ \E n \in Reachable(tree, root_of(tree)) :
           /\ get(tree, n).kind = "Concat"
           /\ get(meta, get(tree, n).left).nullable
           /\ get(meta, n).first_pos = get(meta, get(tree, n).left).first_pos
                                       \cup get(meta, get(tree, n).right).first_pos

-----------------------------------------------------------------------------
(* Claims about the state table of get_dfa.                                *)

\* the states that the transitions of the table lead to from the states of seen
RECURSIVE TransitionClosure(_, _)
TransitionClosure(table, seen) ==
    LET next == seen \cup UNION {{t[2] : t \in table[state]} :
                                    state \in seen \cap DOMAIN table}
    IN  IF next = seen THEN seen ELSE TransitionClosure(table, next)

\* the states the table leads to from the entry state
TableReachable == TransitionClosure(state_table, {EntryState})

\* C27: while get_dfa runs and when it has returned, the entry state is a key
\* of the state table, every queued state is a key, every transition target
\* is a key, and every key is a non-empty set of leaves that the table
\* leads to from the entry state.
C27_TableClosed ==
    pc \in {"get_dfa_loop", "serialize_dfa"} =>
        /\ EntryState \in DOMAIN state_table
        /\ \A i \in 1..Len(queue) : queue[i] \in DOMAIN state_table
        /\ \A state \in DOMAIN state_table :
               /\ \A t \in state_table[state] : t[2] \in DOMAIN state_table
               /\ state # {}
               /\ state \subseteq Leaves(tree)
               /\ state \in TableReachable

\* the loop has taken a state that a transition of another state leads to
C27_Witness ==
    /\ pc = "get_dfa_loop"
    /\ Cardinality(DOMAIN state_table) >= 3
    /\ Len(queue) = 1
    /\ queue[1] # EntryState
    /\ \E state \in DOMAIN state_table \ {EntryState} :
           \E t \in state_table[state] : t[2] = queue[1]

\* the leaves of state that the symbol selects: the Character leaves with
\* that char
Selected(state, symbol) == {p \in state : get(tree, p).ch = symbol}

\* the symbols of the tree
Symbols == {get(tree, p).ch : p \in Leaves(tree)}

\* C28: in the table get_dfa returns, a state has a transition on a symbol
\* other than '#' exactly when the symbol selects a leaf of the state, it has
\* one transition on it, to the union of the followpos sets of the leaves
\* selected; and no state has a transition on '#'.
C28_Transitions ==
    pc = "serialize_dfa" =>
        \A state \in DOMAIN state_table :
            /\ \A t \in state_table[state] : t[1] # "#"
            /\ \A symbol \in Symbols \ {"#"} :
                   {t[2] : t \in {u \in state_table[state] : u[1] = symbol}} =
                       IF Selected(state, symbol) = {} THEN {}
                       ELSE {UNION {follow_pos[p] : p \in Selected(state, symbol)}}
            /\ \A t \in state_table[state] : t[1] \in Symbols

\* a state with two leaves of one symbol whose followpos sets differ, and a
\* state with a '#' leaf and a leaf of another symbol
C28_Witness ==
    /\ pc = "serialize_dfa"
    /\ \E state \in DOMAIN state_table, symbol \in Symbols \ {"#"} :
           \E p, q \in Selected(state, symbol) :
               /\ follow_pos[p] # follow_pos[q]
               /\ <<symbol, follow_pos[p] \cup follow_pos[q]>> \in state_table[state]
    /\ \E state \in DOMAIN state_table :
           /\ Selected(state, "#") # {}
           /\ state_table[state] # {}

-----------------------------------------------------------------------------
(* Claims about the tree parse builds.                                     *)

\* node x of the tree is a per-statement subtree: a Concat whose right child
\* is a '#' leaf that the accepting map holds
IsStmtSubtree(out, x) ==
    /\ get(out.tree, x).kind = "Concat"
    /\ get(out.tree, get(out.tree, x).right) = Character("#")
    /\ get(out.tree, x).right \in DOMAIN out.end_nodes

\* the per-statement subtrees under node x, from left to right, when x is a
\* per-statement subtree or a left-leaning chain of Unions over them; the
\* empty sequence when it is neither
RECURSIVE StmtSubtrees(_, _)
StmtSubtrees(out, x) ==
    IF IsStmtSubtree(out, x) THEN <<x>>
    ELSE IF get(out.tree, x).kind = "Union" /\ IsStmtSubtree(out, get(out.tree, x).right)
    THEN LET before == StmtSubtrees(out, get(out.tree, x).left)
         IN  IF before = << >> THEN << >> ELSE Append(before, get(out.tree, x).right)
    ELSE << >>

\* the ids of the statements of a text that have a regex, one statement a
\* line, in the order of the lines: the name of a token statement, '!' for an
\* ignore statement
RECURSIVE DeclaredIds(_)
DeclaredIds(text) ==
    IF text = << >> THEN << >>
    ELSE (IF IsTokenLine(FirstLine(text)) THEN <<TokenNameOf(FirstLine(text))>>
          ELSE IF IsIgnoreLine(FirstLine(text)) THEN <<<<"!">>>>
          ELSE << >>)
         \o DeclaredIds(AfterFirstLine(text))

\* the root is a Concat of a chain of per-statement subtrees and a '#' leaf
\* that the accepting map does not hold, and the '#' leaves of the subtrees
\* are what the accepting map holds
AugmentedChain(out) ==
    LET root  == get(out.tree, root_of(out.tree))
        chain == StmtSubtrees(out, root.left)
    IN  /\ root.kind = "Concat"
        /\ root.right = root_of(out.tree) - 1
        /\ get(out.tree, root.right) = Character("#")
        /\ root.right \notin DOMAIN out.end_nodes
        /\ chain # << >>
        /\ \A i, j \in 1..Len(chain) :
               i # j => get(out.tree, chain[i]).right # get(out.tree, chain[j]).right
        /\ DOMAIN out.end_nodes = {get(out.tree, chain[i]).right : i \in 1..Len(chain)}

OutputLeaves(out) ==
    {p \in Nodes(out.tree) : get(out.tree, p).kind \in {"Character", "Id"}}

\* the '#' leaves parse has added: one for every statement, and the outer one
EndMarkers(out) == DOMAIN out.end_nodes \cup {get(out.tree, root_of(out.tree)).right}

\* every end marker but the outer one is a key and maps to {'#'}
StmtEndMarkersMapped(out) ==
    \A p \in DOMAIN out.end_nodes :
        /\ p \in DOMAIN out.node_input_symbols
        /\ out.node_input_symbols[p] = {"#"}

\* C30: after a successful parse with a non-empty tree, every leaf of the
\* tree is a key of node_input_symbols, and every '#' end marker maps to {'#'}.
C30_LeavesHaveSymbols ==
    (parse_result.kind = "Ok" /\ parse_result.tree # << >>) =>
        /\ OutputLeaves(parse_result) \subseteq DOMAIN parse_result.node_input_symbols
        /\ \A p \in EndMarkers(parse_result) :
               /\ p \in DOMAIN parse_result.node_input_symbols
               /\ parse_result.node_input_symbols[p] = {"#"}

-----------------------------------------------------------------------------
(* Claims about the char '#'.                                              *)

\* the '#' leaves parse has added, for the statements and the outer one
SyntheticLeaves(out) ==
    IF out.tree = << >> THEN {}
    ELSE DOMAIN out.end_nodes \cup {get(out.tree, root_of(out.tree)).right}

\* C31: after a successful parse no class set of the class lookup table holds
\* '#', and the symbol set of no leaf written in the text holds '#': the
\* leaves with '#' in their symbol set are '#' leaves that parse has added.
C31_HashOnlySynthetic ==
    parse_result.kind = "Ok" =>
        /\ \A name \in DOMAIN parse_result.class_lookup_table :
               "#" \notin parse_result.class_lookup_table[name].chars
        /\ \A p \in DOMAIN parse_result.node_input_symbols :
               "#" \in parse_result.node_input_symbols[p]
                   => p \in SyntheticLeaves(parse_result)

-----------------------------------------------------------------------------
(* Claims about the modes of the lexer.                                    *)

\* C32: a Characters token that get_token or peek_token returns with the
\* lexer in Regex mode has a lexeme of exactly one char, of one byte for the
\* assertion of match_rfactor, whatever stands before the char in the text.
C32_RegexSingleChar ==
    (last.op # "none" /\ last.mode = "Regex" /\ last.entry.token = "Characters") =>
        Len(last.entry.lexeme) = 1

\* the whitespace chars Default mode skips
Whitespace == {" ", "\r", "\n"}

\* the last call was a get_token in Default mode that returned a token read
\* from the text, and not an escape
DefaultTokenReturned ==
    /\ last.op = "get"
    /\ last.mode = "Default"
    /\ last.entry.token \notin {"None", "EOI"}
    /\ lexer.input[last.start + 1] # "\\"

\* C33: in Default mode whitespace that is not escaped is skipped: the lexeme
\* of a token get_token returns holds no space, CR or LF from the text, and an
\* identifier or keyword after whitespace is returned with its own chars and
\* nothing else, so that a keyword is still recognised.
C33_WhitespaceSkipped ==
    DefaultTokenReturned =>
        /\ \A i \in 1..Len(last.entry.lexeme) : last.entry.lexeme[i] \notin Whitespace
        /\ last.entry.token \in {"Characters", "Class", "Token", "Ignore"} =>
               last.entry.lexeme = SubSeq(lexer.input, last.start + 1, lexer.pos)

\* C34: when parse returns, with Ok or with an error, the lexer is in Default
\* mode, and it was in Default mode at every call of get_token and peek_token
\* but the look-ahead and the consumption of an atom in match_rfactor.
C34_ModeScoped ==
    parse_result.kind \in {"Ok", "Err"} =>
        /\ parse_result.lexer.mode = "Default"
        /\ parse_result.regex_mode_calls = 0

\* the regex of test_ignore_stmt, with its four atoms, has been parsed
C34_Witness ==
    /\ lexer.input = TextIgnoreTest
    /\ parse_result.kind = "Ok"
    /\ Len(parse_result.terminal_nodes) = 3
    /\ parse_result.lexer.mode = "Default"

-----------------------------------------------------------------------------
(* Claims about the arena.                                                 *)

\* the positions node refers to
Children(node) ==
    IF node.kind \in BinaryKinds THEN {node.left, node.right}
    ELSE IF node.kind \in UnaryKinds THEN {node.child}
    ELSE {}

\* add on the arena gives an arena one longer that holds obj at the old size
\* and every old element where it was
AddAppends(arena, obj) ==
    /\ size(arena_add(arena, obj)) = size(arena) + 1
    /\ get(arena_add(arena, obj), size(arena)) = obj
    /\ \A p \in 0..(size(arena) - 1) : get(arena_add(arena, obj), p) = get(arena, p)

\* C35: the arena parse has built, when parse returns Ok or an error, holds
\* at every position a node whose children stand at lower positions of the
\* arena, so that every handle is valid and no node is under itself; and add
\* on it appends and changes no element.  The arenas on the way are the
\* prefixes of this one.
C35_ArenaAcyclic ==
    parse_result.kind \in {"Ok", "Err"} =>
        /\ \A p \in Nodes(parse_result.tree) :
               \A c \in Children(get(parse_result.tree, p)) : 0 <= c /\ c < p
        /\ AddAppends(parse_result.tree, Character("#"))

\* the tree of test_ignore_stmt: a Union over two closures, under Concats
C35_Witness ==
    /\ lexer.input = TextIgnoreTest
    /\ parse_result.kind = "Ok"
    /\ \E p \in Nodes(parse_result.tree) :
           /\ get(parse_result.tree, p).kind = "Union"
           /\ get(parse_result.tree, get(parse_result.tree, p).left).kind = "Plus"
           /\ get(parse_result.tree, get(parse_result.tree, p).right).kind = "Star"
    /\ get(parse_result.tree, root_of(parse_result.tree)).kind = "Concat"

-----------------------------------------------------------------------------
(* Claims about what parse accepts inside a regex.                         *)

\* text is one ignore statement, its regex written without a backslash
IsPlainIgnore(text) ==
    /\ Len(text) >= Len(IgnoreText(<< >>))
    /\ SubSeq(text, 1, Len(KwIgnore) + 2) = KwIgnore \o <<" ", "/">>
    /\ text[Len(text)] = "/"
    /\ \A i \in 1..Len(text) : text[i] \notin {"\\", "\n", "\r"}

\* the chars between the slashes of such a text
PlainIgnoreBody(text) == SubSeq(text, Len(KwIgnore) + 3, Len(text) - 1)

\* body has a '(' with nothing or ')' after it, or a '[' with no identifier
\* after it
DanglingOpener(body) ==
    \E i \in 1..Len(body) :
        \/ body[i] = "(" /\ (i = Len(body) \/ body[i + 1] = ")")
        \/ body[i] = "[" /\ (i = Len(body) \/ ~is_alphanumeric(body[i + 1]))

\* C36: parse does not return Ok on a regex in which a '(' opens nothing or
\* a '[' is not followed by an identifier: the token taken would add nothing
\* to the tree.
C36_NoDanglingOpener ==
    (parse_result.kind = "Ok" /\ IsPlainIgnore(lexer.input)) =>
        ~DanglingOpener(PlainIgnoreBody(lexer.input))

-----------------------------------------------------------------------------
(* Claims about the chars the lexer accounts for.                          *)

\* text from its i-th char on is whitespace and comments only
RECURSIVE OnlySkipped(_, _, _)
OnlySkipped(text, i, in_comment) ==
    IF i > Len(text) THEN TRUE
    ELSE IF in_comment THEN OnlySkipped(text, i + 1, text[i] # "\n")
    ELSE IF text[i] \in Whitespace THEN OnlySkipped(text, i + 1, FALSE)
    ELSE IF text[i] = "/" /\ i < Len(text) /\ text[i + 1] = "/"
         THEN OnlySkipped(text, i + 2, TRUE)
    ELSE FALSE

\* C37: no char is dropped: when get_token, in Default mode, returns EOI for
\* the first time, every char from where the call started to the end of the
\* input is skipped whitespace or part of a comment.  A char of any other
\* kind belongs to a token that is returned before EOI, also when it is the
\* last char of the input.
C37_NoCharLost ==
    (/\ last.op = "get"
     /\ last.mode = "Default"
     /\ last.entry.token = "EOI"
     /\ ~last.after_eoi) =>
        OnlySkipped(lexer.input, last.pos_before + 1, FALSE)

-----------------------------------------------------------------------------
(* Claims about the loop of get_dfa.                                       *)

\* the states on the queue
Queued(q) == {q[i] : i \in 1..Len(q)}

\* the states the loop has taken from the queue
Processed(table, q) == DOMAIN table \ Queued(q)

\* the table has, for state, a transition on the char of each of its leaves
\* but '#'
TransitionsComputed(table, state) ==
    \A symbol \in {get(tree, p).ch : p \in state} \ {"#"} :
        \E t \in table[state] : t[1] = symbol

\* one iteration of the loop: the head of the queue is taken and does not
\* come back, the states behind it stay in their order, a state is appended
\* only when the table did not have it, no state is queued twice, the table
\* keeps its keys and has no more of them than the leaves have subsets, and
\* the state taken has its transitions
LoopStep ==
    /\ Len(queue) > 0
    /\ Head(queue) \notin Queued(queue')
    /\ Len(queue') >= Len(queue) - 1
    /\ SubSeq(queue', 1, Len(queue) - 1) = Tail(queue)
    /\ \A i \in Len(queue)..Len(queue') : queue'[i] \notin DOMAIN state_table
    /\ Cardinality(Queued(queue')) = Len(queue')
    /\ DOMAIN state_table \subseteq DOMAIN state_table'
    /\ Cardinality(DOMAIN state_table') <= 2 ^ Cardinality(Leaves(tree))
    /\ Processed(state_table', queue') = Processed(state_table, queue) \cup {Head(queue)}
    /\ TransitionsComputed(state_table', Head(queue))
    /\ Len(queue') = 0 =>
           \A state \in DOMAIN state_table' : TransitionsComputed(state_table', state)

\* C38: get_dfa terminates.  Every iteration of its loop takes one state from
\* the queue for good: a state is put on the queue only when the table has
\* not seen it, so it is queued at most once and taken once, the table never
\* has more states than the leaf set has subsets, and when the queue is empty
\* every state of the table has its transitions.
C38_DfaTerminates ==
    [][(pc = "get_dfa_loop" /\ pc' = "get_dfa_loop") => LoopStep]_vars

\* the loop has emptied the queue after taking three states or more
C38_Witness ==
    /\ pc = "get_dfa_loop"
    /\ Len(queue) = 0
    /\ Cardinality(DOMAIN state_table) >= 3
    /\ \A state \in DOMAIN state_table : TransitionsComputed(state_table, state)

-----------------------------------------------------------------------------
(* Claims about a '#' written in a regex.                                  *)

\* the leaves of state that hold a '#' of the text: '#' leaves that are
\* neither the end marker of a statement nor the outer one
UserHashLeaves(state) ==
    {p \in state : get(tree, p).ch = "#" /\ p \notin DOMAIN end_nodes
                                         /\ p # OuterEndNode}

\* C39: a '#' written in a regex is a symbol like any other: in the table
\* get_dfa returns, a state with such a leaf has a transition on '#' to the
\* union of the followpos sets of its leaves of that kind, and a state that
\* get_dfa has put in its accepting set holds an end marker that parse added.
C39_UserHashOrdinary ==
    pc = "serialize_dfa" =>
        \A state \in DOMAIN state_table :
            /\ UserHashLeaves(state) # {} =>
                   <<"#", UNION {FollowOf(p) : p \in UserHashLeaves(state)}>>
                       \in state_table[state]
            /\ state \in accepting_states =>
                   state \cap (DOMAIN end_nodes \cup {OuterEndNode}) # {}

-----------------------------------------------------------------------------
(* Claims about the driver text.                                           *)

\* C40: the driver text gives different token names different enumeration
\* constants: the entry lines written for two different names of the text
\* differ.
C40_DistinctConstants ==
    driver_file_contents.written =>
        \A i, j \in 1..Len(user_defined_token_ids(token_order)) :
            user_defined_token_ids(token_order)[i] # user_defined_token_ids(token_order)[j]
                => driver_file_contents.token_entries[i]
                       # driver_file_contents.token_entries[j]

====
